---- MODULE Spec2Model ----
(***************************************************************************)
(* Model of the pinsta Telegram bot (src/bot.js, src/database.js): the     *)
(* message handler that turns video links into cached Telegram file ids.   *)
(* One process per inbound message; every await of the handler is a state  *)
(* of that process, and the completion of the awaited call is an action.   *)
(***************************************************************************)
EXTENDS Integers, Sequences, FiniteSets, TLC

\* Number of messages handled concurrently (each by its own async handler).
NumHandlers == 2
\* Largest number of links findVideoLinks yields for one message.
MaxLinks == 2
\* Largest number of links in all the messages of a run together.
MaxTotalLinks == 2

Handlers == 1..NumHandlers

\* JavaScript null / undefined for string-valued things.
Null == "NULL"

\* The links findVideoLinks can yield (src/bot.js:282, 291), url left out.
VideoRefs ==
    { [type |-> "instagram", videoId |-> <<"A">>],
      [type |-> "youtube", videoId |-> <<"x">>] }

\* `${type}:${videoId}` (src/bot.js:315), a string as a sequence of characters.
CacheKey(link) == <<link.type, ":">> \o link.videoId

Keys == { CacheKey(l) : l \in VideoRefs }

\* A replace that drops every ':'.
SafeVideoId_DropColons(videoId) == SelectSeq(videoId, LAMBDA ch : ch # ":")

\* videoId.replace(/:/g, '_') (src/bot.js:80).
SafeVideoId(videoId) ==
    [i \in 1..Len(videoId) |-> IF videoId[i] = ":" THEN "_" ELSE videoId[i]]

NoPath == [stem |-> <<>>, ext |-> ""]

\* path.join(tempDir, `${safeVideoId}.mp4`) (src/bot.js:81).
OutputPath(videoId) == [stem |-> SafeVideoId(videoId), ext |-> ".mp4"]

\* videoPath.replace('.mp4', '_compressed.mp4') (src/bot.js:109).
CompressedPathOf(videoPath) ==
    IF videoPath.ext = ".mp4"
        THEN [videoPath EXCEPT !.ext = "_compressed.mp4"]
        ELSE videoPath

\* videoPath.replace('.mp4', '_frame.jpg') (src/bot.js:166).
FramePathOf(videoPath) ==
    IF videoPath.ext = ".mp4"
        THEN [videoPath EXCEPT !.ext = "_frame.jpg"]
        ELSE IF videoPath.ext = "_compressed.mp4"
            THEN [videoPath EXCEPT !.ext = "_compressed_frame.jpg"]
            ELSE videoPath

\* compressedPath.replace('_compressed.mp4', '.mp4') (src/bot.js:418).
OriginalPathOf(compressedPath) ==
    IF compressedPath.ext = "_compressed.mp4"
        THEN [compressedPath EXCEPT !.ext = ".mp4"]
        ELSE compressedPath

\* Telegram file ids: <<h, i>> is the id returned to handler h for its i-th
\* link; <<0, 1>> is an id stored by an earlier run of the bot.
NoFile == <<0, 0>>
PersistedFile == <<0, 1>>
FileIdOf(h, i) == <<h, i>>

\* A row of the cache table (src/database.js:7-11); NoRow is "no such row".
NoRow == [fileId |-> NoFile, caption |-> Null]
PersistedRow == [fileId |-> PersistedFile, caption |-> "cat"]

\* The key an earlier run of the bot may have left in reels_cache.db.
PersistedKey == CacheKey([type |-> "instagram", videoId |-> <<"A">>])

\* What generateCaption can return (src/bot.js:218-246): null, an empty
\* string (the model answered with punctuation only) or a caption.
Captions == {Null, "", "cat"}

\* JavaScript truthiness of a caption value.
Truthy(c) == c # Null /\ c # ""

\* x || null, x || undefined (src/database.js:34, src/bot.js:322).
OrNull(c) == IF Truthy(c) THEN c ELSE Null

RECURSIVE SeqsUpTo(_, _)
SeqsUpTo(S, n) ==
    IF n = 0 THEN {<<>>}
    ELSE LET shorter == SeqsUpTo(S, n - 1)
         IN shorter \cup { Append(s, x) : s \in { t \in shorter : Len(t) = n - 1 }, x \in S }

(***************************************************************************)
(* Link extraction (src/bot.js:43-68, 253-296).  A text is a sequence of   *)
(* symbols; a symbol is a piece of text that the regular expressions of    *)
(* the extractor either match literally and in one piece or consume as a   *)
(* whole with a character class.                                           *)
(***************************************************************************)

\* Largest number of whitespace-separated words in a text under extraction.
MaxWords == 3

Scheme == <<"https:", "/", "/">>

\* The words texts are made of: links in the forms the extractor knows,
\* links it does not know, and a plain word.
IgReel == Scheme \o <<"www.", "instagram.com", "/", "reel", "/", "A">>
IgReelQuery == Scheme \o <<"instagram.com", "/", "reel", "/", "A", "B", "?", "t=5">>
IgReelSlash == Scheme \o <<"instagram.com", "/", "reel", "/", "A", "/", "?", "t=5">>
IgPost == Scheme \o <<"instagram.com", "/", "p", "/", "B">>
IgNoScheme == <<"instagram.com", "/", "reel", "/", "A">>
IgReelComma == Scheme \o <<"instagram.com", "/", "reel", "/", "A", ",">>
YtWatch == Scheme \o <<"www.", "youtube.com", "/", "watch", "?", "v=", "x">>
YtWatchTime == Scheme \o <<"youtube.com", "/", "watch", "?", "v=", "x", "&", "t=5">>
YtTimeWatch == Scheme \o <<"youtube.com", "/", "watch", "?", "t=5", "&", "v=", "x">>
YtMobile == Scheme \o <<"m.", "youtube.com", "/", "watch", "?", "v=", "x", "&", "t=5">>
YtShortLink == Scheme \o <<"youtu.be", "/", "x", "?", "t=5">>
YtShorts == Scheme \o <<"youtube.com", "/", "shorts", "/", "x">>
IgReelNoId == Scheme \o <<"instagram.com", "/", "reel", "/", "?", "t=5">>
YtShortNoId == Scheme \o <<"youtu.be", "/", "?", "t=5">>
Plain == <<"hi">>

Words ==
    { IgReel, IgReelQuery, IgReelSlash, IgPost, IgNoScheme, IgReelComma, YtWatch, YtWatchTime,
      YtTimeWatch, YtMobile, YtShortLink, YtShorts, IgReelNoId, YtShortNoId, Plain }

\* The words of a text joined by single spaces.
RECURSIVE Join_(_)
Join_(ws) ==
    IF ws = <<>> THEN <<>>
    ELSE IF Len(ws) = 1 THEN ws[1]
    ELSE ws[1] \o <<" ">> \o Join_(Tail(ws))

Texts == { Join_(ws) : ws \in SeqsUpTo(Words, MaxWords) }

\* The texts of the messages the handlers receive: msg.text || '' with up to
\* MaxLinks links, or a plain word (src/bot.js:305).
InboundTexts == { Join_(ws) : ws \in SeqsUpTo({IgReel, YtWatch}, MaxLinks) } \cup {Plain}

\* s has the literal lit at position i.
HasAt(s, i, lit) ==
    /\ i >= 1
    /\ i + Len(lit) - 1 <= Len(s)
    /\ \A k \in 1..Len(lit) : s[i + k - 1] = lit[k]

\* The number of symbols from position i on that are outside the set stop:
\* what a greedy negated character class [^...]+ consumes.
RECURSIVE RunLen(_, _, _)
RunLen(s, i, stop) ==
    IF i > Len(s) \/ s[i] \in stop THEN 0 ELSE 1 + RunLen(s, i + 1, stop)

\* The position after https?:\/\/(?:www\.)? matched at i, or 0.
AfterSchemeAt(s, i) ==
    IF HasAt(s, i, Scheme) \/ HasAt(s, i, <<"http:", "/", "/">>)
        THEN IF HasAt(s, i + 3, <<"www.">>) THEN i + 4 ELSE i + 3
        ELSE 0

\* The length of the match of instagramRegex at position i, or 0
\* (src/bot.js:254).
InstagramMatchLen(s, i) ==
    LET j == AfterSchemeAt(s, i)
        k == IF j > 0 /\ ( \/ HasAt(s, j, <<"instagram.com", "/", "p", "/">>)
                           \/ HasAt(s, j, <<"instagram.com", "/", "reel", "/">>) )
                THEN j + 4 ELSE 0
        n == IF k > 0 THEN RunLen(s, k, {"/", " "}) ELSE 0
    IN IF n > 0 THEN k + n - i ELSE 0

\* The length of the match of youtubeRegex at position i, or 0
\* (src/bot.js:265).
YoutubeMatchLen(s, i) ==
    LET j == AfterSchemeAt(s, i)
        k == IF j = 0 THEN 0
             ELSE IF HasAt(s, j, <<"youtube.com", "/", "watch", "?", "v=">>) THEN j + 5
             ELSE IF HasAt(s, j, <<"youtube.com", "/", "shorts", "/">>) THEN j + 4
             ELSE IF HasAt(s, j, <<"youtu.be", "/">>) THEN j + 2
             ELSE 0
        n == IF k > 0 THEN RunLen(s, k, {" "}) ELSE 0
    IN IF n > 0 THEN k + n - i ELSE 0

\* text.match(instagramRegex) from position i on: the matches from left to
\* right, each with the position it starts at (src/bot.js:253-256).
RECURSIVE InstagramMatchesFrom(_, _)
InstagramMatchesFrom(s, i) ==
    IF i > Len(s) THEN <<>>
    ELSE LET n == InstagramMatchLen(s, i)
         IN IF n > 0
                THEN <<[url |-> SubSeq(s, i, i + n - 1), index |-> i]>>
                        \o InstagramMatchesFrom(s, i + n)
                ELSE InstagramMatchesFrom(s, i + 1)

\* text.match(youtubeRegex) from position i on (src/bot.js:264-267).
RECURSIVE YoutubeMatchesFrom(_, _)
YoutubeMatchesFrom(s, i) ==
    IF i > Len(s) THEN <<>>
    ELSE LET n == YoutubeMatchLen(s, i)
         IN IF n > 0
                THEN <<[url |-> SubSeq(s, i, i + n - 1), index |-> i]>>
                        \o YoutubeMatchesFrom(s, i + n)
                ELSE YoutubeMatchesFrom(s, i + 1)

\* findInstagramLinks, findYoutubeLinks (src/bot.js:253-267).
findInstagramLinks(t) == InstagramMatchesFrom(t, 1)
findYoutubeLinks(t) == YoutubeMatchesFrom(t, 1)

\* The first position from i on where lit is followed by at least one symbol
\* outside stop, or 0: url.match(/lit([^stop]+)/).
RECURSIVE FirstCapture(_, _, _, _)
FirstCapture(s, i, lits, stop) ==
    IF i > Len(s) THEN 0
    ELSE IF \E lit \in lits : HasAt(s, i, lit) /\ RunLen(s, i + Len(lit), stop) > 0
        THEN i
        ELSE FirstCapture(s, i + 1, lits, stop)

\* The group captured by url.match(/lit([^stop]+)/), or <<>> when there is no
\* match; all the literals of one pattern have the same length.
Capture(s, lits, stop) ==
    LET i == FirstCapture(s, 1, lits, stop)
        n == Len(CHOOSE lit \in lits : TRUE)
    IN IF i = 0 THEN <<>>
       ELSE SubSeq(s, i + n, i + n + RunLen(s, i + n, stop) - 1)

\* An extractReelId whose id runs on through a query string.
extractReelId_ToSlash(url) ==
    Capture(url, {<<"/", "p", "/">>, <<"/", "reel", "/">>}, {"/"})

\* extractReelId (src/bot.js:43-46): <<>> stands for null.
extractReelId(url) ==
    Capture(url, {<<"/", "p", "/">>, <<"/", "reel", "/">>}, {"/", "?"})

\* An extractYoutubeId whose v= id runs on through the other parameters.
extractYoutubeId_ToSpace(url) ==
    LET watch == Capture(url, {<<"?", "v=">>, <<"&", "v=">>}, {" "})
        short == Capture(url, {<<"youtu.be", "/">>}, {"/", "?", "&", " "})
        shorts == Capture(url, {<<"/", "shorts", "/">>}, {"/", "?", "&", " "})
    IN IF watch # <<>> THEN watch
       ELSE IF short # <<>> THEN short
       ELSE shorts

\* extractYoutubeId (src/bot.js:54-68): <<>> stands for null.
extractYoutubeId(url) ==
    LET watch == Capture(url, {<<"?", "v=">>, <<"&", "v=">>}, {"&", " "})
        short == Capture(url, {<<"youtu.be", "/">>}, {"/", "?", "&", " "})
        shorts == Capture(url, {<<"/", "shorts", "/">>}, {"/", "?", "&", " "})
    IN IF watch # <<>> THEN watch
       ELSE IF short # <<>> THEN short
       ELSE shorts

\* A loop that pushes a reference for every match, with or without an id.
RECURSIVE LinksOf_KeepAll(_, _, _)
LinksOf_KeepAll(matches, type, k) ==
    IF k > Len(matches) THEN <<>>
    ELSE LET url == matches[k].url
             videoId == IF type = "instagram" THEN extractReelId(url)
                        ELSE extractYoutubeId(url)
         IN <<[url |-> url, type |-> type, videoId |-> videoId, index |-> matches[k].index]>>
            \o LinksOf_KeepAll(matches, type, k + 1)

\* The references pushed for the matches of one provider
\* (src/bot.js:279-284, 288-293): a match without an id is skipped. The
\* position of the match in the text goes along for the properties only.
RECURSIVE LinksOf(_, _, _)
LinksOf(matches, type, k) ==
    IF k > Len(matches) THEN <<>>
    ELSE LET url == matches[k].url
             videoId == IF type = "instagram" THEN extractReelId(url)
                        ELSE extractYoutubeId(url)
         IN (IF videoId # <<>>
                THEN <<[url |-> url, type |-> type, videoId |-> videoId,
                        index |-> matches[k].index]>>
                ELSE <<>>)
            \o LinksOf(matches, type, k + 1)

\* The links of ls from the k-th on that repeat no earlier link of ls.
RECURSIVE FirstOccurrences(_, _)
FirstOccurrences(ls, k) ==
    IF k > Len(ls) THEN <<>>
    ELSE (IF \E j \in 1..(k - 1) :
                ls[j].type = ls[k].type /\ ls[j].videoId = ls[k].videoId
            THEN <<>> ELSE <<ls[k]>>)
         \o FirstOccurrences(ls, k + 1)

\* A findVideoLinks that yields every video once.
findVideoLinks_Deduplicated(t) ==
    FirstOccurrences(LinksOf(findInstagramLinks(t), "instagram", 1)
                        \o LinksOf(findYoutubeLinks(t), "youtube", 1), 1)

\* findVideoLinks (src/bot.js:274-296).
findVideoLinks(t) ==
    LinksOf(findInstagramLinks(t), "instagram", 1)
        \o LinksOf(findYoutubeLinks(t), "youtube", 1)

\* What the loop of the handler keeps of a link: the url only goes into the
\* downloader command and the error notice.
Ref(l) == [type |-> l.type, videoId |-> l.videoId]

Refs(ls) == [k \in 1..Len(ls) |-> Ref(ls[k])]

\* findVideoLinks(text) for each text (src/bot.js:307), and videoLinks as the
\* loop uses them for each text a handler can receive.
LinksIn == [t \in Texts |-> findVideoLinks(t)]

InboundLinks == [t \in InboundTexts |-> Refs(LinksIn[t])]

\* The number of matches of the two regular expressions in each text.
MatchesIn == [t \in Texts |-> Len(findInstagramLinks(t)) + Len(findYoutubeLinks(t))]

(***************************************************************************)
(* The metadata proxy (src/server.js): the values it reads from the        *)
(* fetched page and the page it renders. A value is a sequence of symbols; *)
(* <<>> stands for undefined, null and ''.                                 *)
(***************************************************************************)

\* The reel ids requested with GET /tg/:reelId.
ReelIds == { <<"R">>, <<"S">> }

\* `https://www.instagram.com/reel/${reelId}/` (src/server.js:190).
InstagramUrl(reelId) == <<"https://www.instagram.com", "/", "reel", "/">> \o reelId \o <<"/">>

\* `${req.protocol}://${req.get('host')}/default-thumbnail.jpg`
\* (src/server.js:79).
DefaultThumbnail == <<"http://host", "/", "default-thumbnail.jpg">>

\* The content of the meta tags and of <title> in a fetched page.
PagePlain ==
    [ ogTitle |-> <<"T">>, title |-> <<>>, ogDescription |-> <<"D">>, description |-> <<>>,
      ogImage |-> <<"i">>, ogImageSecure |-> <<>>, ogVideo |-> <<"v">>, ogVideoSecure |-> <<>>,
      ogVideoType |-> <<"m">> ]
PageBare ==
    [ ogTitle |-> <<>>, title |-> <<>>, ogDescription |-> <<>>, description |-> <<>>,
      ogImage |-> <<>>, ogImageSecure |-> <<>>, ogVideo |-> <<>>, ogVideoSecure |-> <<>>,
      ogVideoType |-> <<>> ]
PageHostile ==
    [ ogTitle |-> <<"\"", ">", "T">>, title |-> <<>>,
      ogDescription |-> <<>>, description |-> <<"<", "D", "'">>,
      ogImage |-> <<>>, ogImageSecure |-> <<"i", "\"", ">">>,
      ogVideo |-> <<"v", "'">>, ogVideoSecure |-> <<>>,
      ogVideoType |-> <<"m", "<">> ]

Pages == { PagePlain, PageBare, PageHostile }

\* The characters of /['"<>]/ (src/server.js:92-93).
Dangerous == { "'", "\"", "<", ">" }

\* value.replace(/['"<>]/g, '') (src/server.js:92-93).
Sanitize(v) == SelectSeq(v, LAMBDA ch : ch \notin Dangerous)

\* a || b for two values.
Or(a, b) == IF a # <<>> THEN a ELSE b

\* extractReelId of the proxy (src/server.js:36-40): <<>> stands for null.
serverExtractReelId(url) ==
    LET reelMatch == Capture(url, {<<"/", "reel", "/">>}, {"/", "?"})
        postMatch == Capture(url, {<<"/", "p", "/">>}, {"/", "?"})
    IN  Or(reelMatch, postMatch)

\* What extractReelsData resolves with when the fetch or the parsing failed
\* (src/server.js:99-102), and what getCachedData returns for a miss: null.
NoData ==
    [ title |-> <<>>, description |-> <<>>, image |-> <<>>, video |-> <<>>,
      videoType |-> <<>>, originalUrl |-> <<>> ]

\* extractReelsData once axios.get has answered with page
\* (src/server.js:58-97).
extractReelsData(url, page) ==
    LET title == Or(page.ogTitle, Or(page.title, <<"Instagram Reels">>))
        description == Or(page.ogDescription, Or(page.description, <<"Instagram Reels video">>))
        image == Or(Or(page.ogImage, page.ogImageSecure), DefaultThumbnail)
        reelId == serverExtractReelId(url)
        embed == IF reelId # <<>>
                    THEN <<"https://www.instagram.com", "/", "p", "/">> \o reelId \o <<"/", "embed", "/">>
                    ELSE <<>>
        video == Or(Or(page.ogVideo, page.ogVideoSecure), embed)
        videoType == Or(page.ogVideoType, <<"video/mp4">>)
    IN  [ title |-> Sanitize(title),
          description |-> Sanitize(description),
          image |-> image,
          video |-> video,
          videoType |-> videoType,
          originalUrl |-> url ]

\* The values generateHTML interpolates into the page (src/server.js:106-172),
\* by the place they go to; <<>> where the conditional part is left out.
NoHtml ==
    [ ogTitle |-> <<>>, ogDescription |-> <<>>, ogImage |-> <<>>, ogVideo |-> <<>>,
      ogVideoSecureUrl |-> <<>>, ogVideoType |-> <<>>, title |-> <<>>, iframeSrc |-> <<>>,
      fallbackTitle |-> <<>>, fallbackDescription |-> <<>>, fallbackHref |-> <<>> ]

generateHTML(reelsData) ==
    [ ogTitle |-> reelsData.title,
      ogDescription |-> reelsData.description,
      ogImage |-> reelsData.image,
      ogVideo |-> reelsData.video,
      ogVideoSecureUrl |-> reelsData.video,
      ogVideoType |-> reelsData.videoType,
      title |-> reelsData.title,
      iframeSrc |-> reelsData.video,
      fallbackTitle |-> IF reelsData.video # <<>> THEN <<>> ELSE reelsData.title,
      fallbackDescription |-> IF reelsData.video # <<>> THEN <<>> ELSE reelsData.description,
      fallbackHref |-> IF reelsData.video # <<>> THEN <<>> ELSE reelsData.originalUrl ]

\* Date.now() advances in steps of one minute, in milliseconds.
Minute == 60 * 1000
MaxMinutes == 5

\* const CACHE_TTL = 5 * 60 * 1000 (src/server.js:16).
CACHE_TTL == 5 * 60 * 1000

\* An entry of the Map (src/server.js:15, 29-32); NoEntry is "no such key".
NoEntry == [data |-> NoData, timestamp |-> -1]

\* A freshness test that still serves an entry of exactly CACHE_TTL.
IsFresh_Inclusive(cached, now) ==
    cached # NoEntry /\ now - cached.timestamp <= CACHE_TTL

\* cached && Date.now() - cached.timestamp < CACHE_TTL (src/server.js:21).
IsFresh(cached, now) ==
    cached # NoEntry /\ now - cached.timestamp < CACHE_TTL

\* A getCachedData that stamps the entry it serves with the time of the read.
AfterGetCachedData_Touch(map, key, now) ==
    IF IsFresh(map[key], now) THEN [map EXCEPT ![key].timestamp = now]
    ELSE [map EXCEPT ![key] = NoEntry]

\* getCachedData(key) (src/server.js:19-26): what it returns, and the Map it
\* leaves.
getCachedData(map, key, now) ==
    IF IsFresh(map[key], now) THEN map[key].data ELSE NoData
AfterGetCachedData(map, key, now) ==
    IF IsFresh(map[key], now) THEN map ELSE [map EXCEPT ![key] = NoEntry]

\* setCachedData(key, data) (src/server.js:28-33).
setCachedData(map, key, data, now) ==
    [map EXCEPT ![key] = [data |-> data, timestamp |-> now]]

\* The requests the proxy handles at the same time, and all it is sent.
NumRequests == 2
MaxRequests == 3
Requests == 1..NumRequests

\* A request nobody has sent yet.
NoRequest ==
    [ n |-> 0, pc |-> "idle", reelId |-> <<>>, hit |-> FALSE, reelsData |-> NoData,
      responses |-> <<>> ]


VARIABLES
    botToken,         \* src/bot.js:12: whether process.env.BOT_TOKEN is set
    probe,            \* per handler: an ffprobe outcome given in advance, or NoProbe
    ytDlpInstalled,   \* whether `yt-dlp --version` succeeds on the host
    geminiAvailable,  \* src/bot.js:18, fixed at module load
    ytDlpAvailable,   \* src/bot.js:17
    started,          \* startBot() has finished
    cache,            \* the cache table: key -> row
    dbQueue,          \* INSERT OR REPLACE statements handed to sqlite, not yet run
    files,            \* the temporary files that exist
    text,             \* per handler: msg.text || ''
    links,            \* per handler: videoLinks
    idx,              \* per handler: position of the for-loop
    pc,               \* per handler: the await it is suspended at
    it,               \* per handler: the variables of the current iteration
    log,              \* per handler: what the current iteration has done
    orphans,          \* per handler: caption tasks of iterations already left
    received,         \* the number of links received so far
    sent,             \* history: the uploads Telegram answered with a video file id
    clock,            \* src/server.js: Date.now()
    metaCache,        \* src/server.js:15: the Map `cache`, reel id -> entry
    req,              \* src/server.js:188: per request, its number, variables and responses
    arrived           \* the number of GET /tg/:reelId requests so far

\* The variables of the proxy.
Web == <<clock, metaCache, req, arrived>>

vars == <<botToken, probe, ytDlpInstalled, geminiAvailable, ytDlpAvailable, started, cache, dbQueue,
          files, text, links, idx, pc, it, log, orphans, received, sent, Web>>

\* The proxy before its first request.
WebInit ==
    /\ clock = 0
    /\ metaCache = [k \in ReelIds |-> NoEntry]
    /\ req = [r \in Requests |-> NoRequest]
    /\ arrived = 0

\* The bitrates of the ffmpeg command that is running (src/bot.js:138), in
\* kbit/s; NoCmd when none is.
NoCmd == [videoBitrate |-> 0, audioBitrate |-> 0]

\* No ffprobe outcome is given in advance.
NoProbe == [error |-> FALSE, nan |-> FALSE, secs |-> -1]

\* The variables of one loop iteration (src/bot.js:310-429), and the ffmpeg
\* command compressVideo has running.
NewIt ==
    [ cached |-> NoRow,
      videoPath |-> NoPath,
      compressedPath |-> NoPath,
      framePath |-> NoPath,
      caption |-> Null,
      generatedCaption |-> Null,
      sentMessage |-> [video |-> FALSE, fileId |-> NoFile],
      ffmpeg |-> NoCmd,
      cst |-> "idle",
      ust |-> "idle" ]

NoCalls == [download |-> 0, compress |-> 0, encoder |-> 0, frame |-> 0,
            caption |-> 0, upload |-> 0]

\* The record of one loop iteration: observation only, never read by the code.
NewLog ==
    [ lookup |-> "none",
      row |-> NoRow,
      readErr |-> FALSE,
      unavailable |-> FALSE,
      calls |-> NoCalls,
      compressError |-> "none",
      notices |-> <<>>,
      thrown |-> FALSE,
      delivered |-> <<>>,
      created |-> {},
      unlinked |-> {},
      puts |-> <<>> ]

Init ==
    /\ botToken \in BOOLEAN
    /\ probe = [h \in Handlers |-> NoProbe]
    /\ ytDlpInstalled \in BOOLEAN
    /\ geminiAvailable \in BOOLEAN
    /\ ytDlpAvailable = FALSE
    /\ started = FALSE
    /\ cache \in { [k \in Keys |-> NoRow],
                   [k \in Keys |-> IF k = PersistedKey THEN PersistedRow ELSE NoRow] }
    /\ dbQueue = <<>>
    /\ files = {}
    /\ text = [h \in Handlers |-> <<>>]
    /\ links = [h \in Handlers |-> <<>>]
    /\ idx = [h \in Handlers |-> 0]
    /\ pc = [h \in Handlers |-> "idle"]
    /\ it = [h \in Handlers |-> NewIt]
    /\ log = [h \in Handlers |-> NewLog]
    /\ orphans = [h \in Handlers |-> {}]
    /\ received = 0
    /\ sent = {}
    /\ WebInit

Link(h) == links[h][idx[h]]
Key(h) == CacheKey(Link(h))

Env == <<botToken, probe, ytDlpInstalled, geminiAvailable, received, sent, text, Web>>

\* A handler that starts the download again when it has failed.
Thrown_Retry(h, step) ==
    IF step = "download"
        THEN /\ pc' = [pc EXCEPT ![h] = "download"]
             /\ log' = [log EXCEPT ![h].calls.download = @ + 1]
        ELSE /\ pc' = [pc EXCEPT ![h] = "catch"]
             /\ log' = [log EXCEPT ![h].thrown = TRUE]

\* A handler that downloads the video when the delivery of a cached file failed.
Thrown_Fallback(h, step) ==
    IF step \in {"hitAction", "hitSend"}
        THEN /\ pc' = [pc EXCEPT ![h] = "download"]
             /\ log' = [log EXCEPT ![h].calls.download = @ + 1]
        ELSE /\ pc' = [pc EXCEPT ![h] = "catch"]
             /\ log' = [log EXCEPT ![h].thrown = TRUE]

\* An await inside the try block rejected: control is in the catch block,
\* whose sendMessage is now awaited (src/bot.js:431-433).
Thrown(h, step) ==
    /\ pc' = [pc EXCEPT ![h] = "catch"]
    /\ log' = [log EXCEPT ![h].thrown = TRUE]

Notice(h, kind, ok) == [log EXCEPT ![h].notices = Append(@, [kind |-> kind, ok |-> ok])]


\* startBot (src/bot.js:460-469): the availability check resolves and the bot
\* reports that it is ready and listening; BOT_TOKEN is not looked at.
StartBot ==
    /\ ~started
    /\ started' = TRUE
    /\ ytDlpAvailable' = ytDlpInstalled
    /\ UNCHANGED <<Env, cache, dbQueue, files, links, idx, pc, it, log, orphans, received, sent>>

\* A handler that enters its loop whatever findVideoLinks returned.
NoLinks_Never(videoLinks) == FALSE

\* if (videoLinks.length === 0) return (src/bot.js:308).
NoLinks(videoLinks) == Len(videoLinks) = 0

\* bot.on('message') up to the first await (src/bot.js:303-312). Polling
\* starts when the bot object is built (src/bot.js:16), before startBot ends;
\* without a token no update can be fetched, so no message arrives.
Receive(h) ==
    /\ botToken
    /\ pc[h] = "idle"
    /\ \E t \in InboundTexts :
        LET m == InboundLinks[t]
        IN  /\ received + Len(m) <= MaxTotalLinks
            /\ received' = received + Len(m)
            /\ text' = [text EXCEPT ![h] = t]
            /\ links' = [links EXCEPT ![h] = m]
            /\ IF NoLinks(m)
                THEN /\ pc' = [pc EXCEPT ![h] = "returned"]
                     /\ idx' = idx
                ELSE /\ pc' = [pc EXCEPT ![h] = "typing"]
                     /\ idx' = [idx EXCEPT ![h] = 1]
    /\ UNCHANGED <<Web, botToken, probe, ytDlpInstalled, geminiAvailable, sent, ytDlpAvailable, started, cache,
                   dbQueue, files, it, log, orphans>>

\* await bot.sendChatAction(chatId, 'typing') (src/bot.js:312); the cache
\* read is issued when it resolves (src/bot.js:318).
SendTyping(h) ==
    /\ pc[h] = "typing"
    /\ \E ok \in BOOLEAN :
        IF ok
            THEN /\ pc' = [pc EXCEPT ![h] = "lookup"]
                 /\ log' = log
            ELSE Thrown(h, "typing")
    /\ UNCHANGED <<Env, ytDlpAvailable, started, cache, dbQueue, files, links, idx, it, orphans>>

\* A getCachedFileId that never finds a row.
GetCachedFileId_AlwaysMiss(row, err) == NoRow

\* A getCachedFileId that answers with the row whatever db.get reported.
GetCachedFileId_IgnoreError(row, err) ==
    IF row = NoRow THEN NoRow
    ELSE [fileId |-> row.fileId, caption |-> OrNull(row.caption)]

\* A getCachedFileId that resolves with row.caption as stored.
GetCachedFileId_RawCaption(row, err) ==
    IF err THEN NoRow
    ELSE IF row = NoRow THEN NoRow
    ELSE [fileId |-> row.fileId, caption |-> row.caption]

\* getCachedFileId (src/database.js:26-40): null on a read error or a missing
\* row, else the row with caption || null.
GetCachedFileId(row, err) ==
    IF err THEN NoRow
    ELSE IF row = NoRow THEN NoRow
    ELSE [fileId |-> row.fileId, caption |-> OrNull(row.caption)]

\* An if (cached) that never takes the hit branch.
IsHit_Never(cached) == FALSE

\* if (cached) (src/bot.js:319).
IsHit(cached) == cached # NoRow

\* The handler without its hit branch: a cached video is downloaded again.
AfterLookup_IgnoreHit(cached, available) ==
    IF ~available THEN "notify" ELSE "download"

\* The handler without the ytDlpAvailable check.
AfterLookup_IgnoreAvailability(cached, available) ==
    IF cached # NoRow THEN "hitAction" ELSE "download"

\* The handler with the ytDlpAvailable check before the cache check.
AfterLookup_AvailabilityFirst(cached, available) ==
    IF ~available THEN "notify"
    ELSE IF cached # NoRow THEN "hitAction"
    ELSE "download"

\* The branch taken once the cache answered (src/bot.js:319-335).
AfterLookup(cached, available) ==
    IF IsHit(cached) THEN "hitAction"
    ELSE IF ~available THEN "notify"
    ELSE "download"

\* The cache read resolves (src/bot.js:318-335): on a hit the 'upload_video'
\* chat action is issued, on a miss the unavailable notice or the download.
Lookup(h) ==
    /\ pc[h] = "lookup"
    /\ \E err \in BOOLEAN :
        LET cached == GetCachedFileId(cache[Key(h)], err)
            next == AfterLookup(cached, ytDlpAvailable)
        IN  /\ pc' = [pc EXCEPT ![h] = next]
            /\ it' = [it EXCEPT ![h].cached = cached]
            /\ log' = [log EXCEPT ![h].lookup = IF IsHit(cached) THEN "hit" ELSE "miss",
                                  ![h].row = cache[Key(h)],
                                  ![h].readErr = err,
                                  ![h].unavailable = ~ytDlpAvailable,
                                  ![h].calls.download = IF next = "download" THEN @ + 1 ELSE @]
    /\ UNCHANGED <<Env, ytDlpAvailable, started, cache, dbQueue, files, links, idx, orphans>>

\* await bot.sendChatAction(chatId, 'upload_video') of the hit branch
\* (src/bot.js:320).
HitAction(h) ==
    /\ pc[h] = "hitAction"
    /\ \E ok \in BOOLEAN :
        IF ok
            THEN /\ pc' = [pc EXCEPT ![h] = "hitSend"]
                 /\ log' = log
            ELSE Thrown(h, "hitAction")
    /\ UNCHANGED <<Env, ytDlpAvailable, started, cache, dbQueue, files, links, idx, it, orphans>>

\* What the hit branch hands to sendVideo (src/bot.js:321-324).
CachedDelivery(cached) ==
    [src |-> "cache", fileId |-> cached.fileId, path |-> NoPath,
     caption |-> OrNull(cached.caption)]

\* await bot.sendVideo(chatId, cached.fileId, ...); continue (src/bot.js:321-326).
HitSend(h) ==
    /\ pc[h] = "hitSend"
    /\ \E ok \in BOOLEAN :
        IF ok
            THEN /\ pc' = [pc EXCEPT ![h] = "linkDone"]
                 /\ log' = [log EXCEPT ![h].delivered = Append(@, CachedDelivery(it[h].cached))]
            ELSE Thrown(h, "hitSend")
    /\ UNCHANGED <<Env, ytDlpAvailable, started, cache, dbQueue, files, links, idx, it, orphans>>

\* await bot.sendMessage(chatId, 'yt-dlp is not available ...'); continue
\* (src/bot.js:330-333).
NotifyUnavailable(h) ==
    /\ pc[h] = "notify"
    /\ \E ok \in BOOLEAN :
        IF ok
            THEN /\ pc' = [pc EXCEPT ![h] = "linkDone"]
                 /\ log' = Notice(h, "unavailable", TRUE)
            ELSE /\ pc' = [pc EXCEPT ![h] = "catch"]
                 /\ log' = [Notice(h, "unavailable", FALSE) EXCEPT ![h].thrown = TRUE]
    /\ UNCHANGED <<Env, ytDlpAvailable, started, cache, dbQueue, files, links, idx, it, orphans>>

\* yt-dlp ends with an error or a timeout: downloadVideo rejects
\* (src/bot.js:87-91).
DownloadError(h) ==
    /\ pc[h] = "download"
    /\ Thrown(h, "download")
    /\ UNCHANGED <<Env, ytDlpAvailable, started, cache, dbQueue, files, links, idx, it, orphans>>

\* yt-dlp exits with status 0, having written the output file or not
\* (src/bot.js:85-87).
DownloadExit(h) ==
    /\ pc[h] = "download"
    /\ \E wrote \in BOOLEAN :
        LET outputPath == OutputPath(Key(h))
        IN  /\ files' = IF wrote THEN files \cup {outputPath} ELSE files
            /\ log' = [log EXCEPT ![h].created = IF wrote THEN @ \cup {outputPath} ELSE @]
    /\ pc' = [pc EXCEPT ![h] = "dlCallback"]
    /\ UNCHANGED <<Env, ytDlpAvailable, started, cache, dbQueue, links, idx, it, orphans>>

\* if (fileSizeMB > 50) (src/bot.js:343).
NeedsCompression(big) == big

\* The exec callback of downloadVideo and the size check (src/bot.js:92-96,
\* 335-345, 366): the file is there or downloadVideo rejects; a file over
\* the limit issues the progress notice, any other the 'upload_video' action.
DownloadCallback(h) ==
    /\ pc[h] = "dlCallback"
    /\ LET outputPath == OutputPath(Key(h))
       IN  IF outputPath \in files
            THEN \E big \in BOOLEAN :
                    /\ pc' = [pc EXCEPT ![h] = IF NeedsCompression(big) THEN "compNotice"
                                               ELSE "uploadAction"]
                    /\ it' = [it EXCEPT ![h].videoPath = outputPath]
                    /\ log' = log
            ELSE /\ Thrown(h, "download")
                 /\ it' = it
    /\ UNCHANGED <<Env, ytDlpAvailable, started, cache, dbQueue, files, links, idx, orphans>>


\* targetSizeMB = 45 (src/bot.js:107), audioBitrate = 128 (src/bot.js:127),
\* the floor of the video bitrate (src/bot.js:131).
TargetSizeMB == 45
AudioBitrate == 128
MinVideoBitrate == 100

\* What the ffprobe callback can get (src/bot.js:114-120): an exec error or
\* timeout, or an output that parseFloat turns into NaN or into a number of
\* seconds.
ProbeOf(ds) ==
    { [error |-> TRUE, nan |-> FALSE, secs |-> 0], [error |-> FALSE, nan |-> TRUE, secs |-> 0] }
    \cup { [error |-> FALSE, nan |-> FALSE, secs |-> d] : d \in ds }

ProbeResults == ProbeOf({0, 60, 1616, 1617})

\* !duration || duration <= 0 (src/bot.js:121).
InvalidDuration(r) == r.nan \/ r.secs = 0 \/ r.secs <= 0

\* A bitrate computed without taking the audio off.
TargetVideoBitrate_WithAudio(secs) == (TargetSizeMB * 8 * 1024) \div secs

\* Math.floor((targetSizeMB * 8 * 1024) / duration - audioBitrate)
\* (src/bot.js:128-129), for a whole number of seconds.
TargetVideoBitrate(secs) == ((TargetSizeMB * 8 * 1024) \div secs) - AudioBitrate

\* The inner catch block is entered (src/bot.js:352-356): its sendMessage
\* is now awaited.
CompressThrown(h, what) ==
    /\ pc' = [pc EXCEPT ![h] = "compCatch"]
    /\ log' = [log EXCEPT ![h].compressError = what]

\* await bot.sendMessage(chatId, 'video too large, compressing') inside the
\* inner try (src/bot.js:344-349); compressVideo is called when it resolves.
CompNotice(h) ==
    /\ pc[h] = "compNotice"
    /\ \E ok \in BOOLEAN :
        IF ok
            THEN /\ pc' = [pc EXCEPT ![h] = "ffprobe"]
                 /\ log' = [Notice(h, "compressing", TRUE) EXCEPT ![h].calls.compress = @ + 1]
            ELSE /\ pc' = [pc EXCEPT ![h] = "compCatch"]
                 /\ log' = [Notice(h, "compressing", FALSE) EXCEPT ![h].compressError = "notice"]
    /\ UNCHANGED <<Env, ytDlpAvailable, started, cache, dbQueue, files, links, idx, it, orphans>>

\* compressVideo: the ffprobe callback with outcome r (src/bot.js:114-140).
FfprobeCallback(h, r) ==
    IF r.error
        THEN CompressThrown(h, "compress") /\ it' = it
    ELSE IF InvalidDuration(r)
        THEN CompressThrown(h, "compress") /\ it' = it
    ELSE IF TargetVideoBitrate(r.secs) < MinVideoBitrate
        THEN CompressThrown(h, "compress") /\ it' = it
    ELSE /\ pc' = [pc EXCEPT ![h] = "ffmpeg"]
         /\ log' = [log EXCEPT ![h].calls.encoder = @ + 1]
         /\ it' = [it EXCEPT ![h].ffmpeg = [videoBitrate |-> TargetVideoBitrate(r.secs),
                                            audioBitrate |-> AudioBitrate]]

Ffprobe(h) ==
    /\ pc[h] = "ffprobe"
    /\ \E r \in ProbeResults : FfprobeCallback(h, r)
    /\ UNCHANGED <<Env, ytDlpAvailable, started, cache, dbQueue, files, links, idx, orphans>>

\* compressVideo: the ffmpeg callback (src/bot.js:140-154) and, on success,
\* videoPath = compressedPath and the 'upload_video' action (src/bot.js:349-351,
\* 366). The encoder may leave an output file when it fails.
Ffmpeg(h) ==
    /\ pc[h] = "ffmpeg"
    /\ LET compressedPath == CompressedPathOf(it[h].videoPath)
       IN \E error \in BOOLEAN, wrote \in BOOLEAN :
            /\ files' = IF wrote THEN files \cup {compressedPath} ELSE files
            /\ IF ~error /\ compressedPath \in files'
                THEN /\ pc' = [pc EXCEPT ![h] = "uploadAction"]
                     /\ it' = [it EXCEPT ![h].compressedPath = compressedPath,
                                         ![h].videoPath = compressedPath,
                                         ![h].ffmpeg = NoCmd]
                     /\ log' = [log EXCEPT ![h].created = IF wrote THEN @ \cup {compressedPath} ELSE @]
                ELSE /\ pc' = [pc EXCEPT ![h] = "compCatch"]
                     /\ it' = [it EXCEPT ![h].ffmpeg = NoCmd]
                     /\ log' = [log EXCEPT ![h].compressError = "compress",
                                           ![h].created = IF wrote THEN @ \cup {compressedPath} ELSE @]
    /\ UNCHANGED <<Env, ytDlpAvailable, started, cache, dbQueue, links, idx, orphans>>

\* What the inner catch block unlinks (src/bot.js:358).
CompressCleanup(itr) == {itr.videoPath}

\* The inner catch block (src/bot.js:352-362): the failure notice, then the
\* unlink of videoPath and continue; a failing notice throws to the outer catch.
CompCatch(h) ==
    /\ pc[h] = "compCatch"
    /\ \E ok \in BOOLEAN :
        IF ok
            THEN /\ pc' = [pc EXCEPT ![h] = "linkDone"]
                 /\ files' = files \ CompressCleanup(it[h])
                 /\ log' = [Notice(h, "compressFailed", TRUE) EXCEPT
                                ![h].unlinked = @ \cup CompressCleanup(it[h])]
            ELSE /\ pc' = [pc EXCEPT ![h] = "catch"]
                 /\ files' = files
                 /\ log' = [Notice(h, "compressFailed", FALSE) EXCEPT
                                ![h].thrown = TRUE]
    /\ UNCHANGED <<Env, ytDlpAvailable, started, cache, dbQueue, links, idx, it, orphans>>

\* await bot.sendChatAction(chatId, 'upload_video'), then the caption task
\* and the upload are started (src/bot.js:366-392).
UploadAction(h) ==
    /\ pc[h] = "uploadAction"
    /\ \E ok \in BOOLEAN :
        IF ok
            THEN /\ pc' = [pc EXCEPT ![h] = "parallel"]
                 /\ it' = [it EXCEPT ![h].cst = IF geminiAvailable THEN "frame" ELSE "done",
                                     ![h].ust = "sending"]
                 /\ log' = [log EXCEPT ![h].calls.upload = @ + 1,
                                       ![h].calls.frame = IF geminiAvailable THEN @ + 1 ELSE @]
            ELSE /\ Thrown(h, "uploadAction")
                 /\ it' = it
    /\ UNCHANGED <<Env, ytDlpAvailable, started, cache, dbQueue, files, links, idx, orphans>>

\* extractFirstFrame settles (src/bot.js:164-211, 374-375): the frame file
\* exists and generateCaption is called, or the task returns null.
FrameDone(h) ==
    /\ pc[h] = "parallel"
    /\ it[h].cst = "frame"
    /\ LET framePath == FramePathOf(it[h].videoPath)
       IN \E ok \in BOOLEAN :
            IF ok
                THEN /\ files' = files \cup {framePath}
                     /\ it' = [it EXCEPT ![h].framePath = framePath, ![h].cst = "gen"]
                     /\ log' = [log EXCEPT ![h].created = @ \cup {framePath},
                                           ![h].calls.caption = @ + 1]
                ELSE /\ files' = files
                     /\ it' = [it EXCEPT ![h].cst = "done"]
                     /\ log' = log
    /\ UNCHANGED <<Env, ytDlpAvailable, started, cache, dbQueue, links, idx, pc, orphans>>

\* generateCaption settles (src/bot.js:218-246, 375-383): the closure assigns
\* the iteration's caption variable and returns the same value.
CaptionDone(h) ==
    /\ pc[h] = "parallel"
    /\ it[h].cst = "gen"
    /\ \E c \in Captions :
        it' = [it EXCEPT ![h].caption = c, ![h].generatedCaption = c, ![h].cst = "done"]
    /\ UNCHANGED <<Env, ytDlpAvailable, started, cache, dbQueue, files, links, idx, pc, log, orphans>>


\* The upload settles (src/bot.js:386-392). A rejection rejects Promise.all
\* at once: the handler is in the catch block while the caption task, if it
\* has not settled, runs on. A success may carry no video (Telegram stored
\* the file as another kind of attachment).
UploadDone(h) ==
    /\ pc[h] = "parallel"
    /\ it[h].ust = "sending"
    /\ \/ /\ Thrown(h, "upload")
          /\ it' = [it EXCEPT ![h].ust = "failed"]
          /\ orphans' = [orphans EXCEPT ![h] =
                            IF it[h].cst \in {"frame", "gen"}
                                THEN @ \cup {[src |-> it[h].videoPath, st |-> it[h].cst]}
                                ELSE @]
          /\ sent' = sent
       \/ \E video \in BOOLEAN :
            LET fileId == FileIdOf(h, idx[h])
            IN  /\ it' = [it EXCEPT ![h].ust = "ok",
                                    ![h].sentMessage = [video |-> video, fileId |-> fileId]]
                /\ log' = [log EXCEPT ![h].delivered =
                              Append(@, [src |-> "file", fileId |-> fileId,
                                         path |-> it[h].videoPath, caption |-> Null])]
                /\ sent' = IF video THEN sent \cup {[key |-> Key(h), fileId |-> fileId]} ELSE sent
                /\ pc' = pc
                /\ orphans' = orphans
    /\ UNCHANGED <<Web, botToken, probe, ytDlpInstalled, geminiAvailable, received, ytDlpAvailable, started, cache,
                   dbQueue, files, text, links, idx>>

\* A step 5 that caches whatever sendVideo answered.
ShouldCache_Always(sentMessage) == TRUE

\* if (sentMessage.video) (src/bot.js:408).
ShouldCache(sentMessage) == sentMessage.video

\* The arguments of cacheFileId (src/bot.js:409).
CacheArgs(key, itr) == [key |-> key, fileId |-> itr.sentMessage.fileId, caption |-> itr.caption]

\* A step 6 that unlinks nothing.
CleanupPaths_None(itr, existing) == {}

\* A cleanup that forgets the original of a compressed video.
CleanupPaths_NoOriginal(itr, existing) ==
    {itr.videoPath}
    \cup (IF itr.framePath # NoPath THEN {itr.framePath} ELSE {})

\* The files the cleanup unlinks (src/bot.js:413-429), given the files that exist.
CleanupPaths(itr, existing) ==
    {itr.videoPath}
    \cup (IF itr.compressedPath # NoPath
             /\ OriginalPathOf(itr.compressedPath) # itr.videoPath
             /\ OriginalPathOf(itr.compressedPath) \in existing
          THEN {OriginalPathOf(itr.compressedPath)} ELSE {})
    \cup (IF itr.framePath # NoPath THEN {itr.framePath} ELSE {})

\* Steps 5 and 6 of the handler (src/bot.js:407-429), run without an await in
\* between: cacheFileId hands the statement to sqlite and returns, then the
\* temporary files are unlinked. itr and lg are the iteration's variables and
\* record at that point.
CommitAndCleanup(h, itr, lg) ==
    LET put == ShouldCache(itr.sentMessage)
        gone == CleanupPaths(itr, files)
    IN  /\ dbQueue' = IF put THEN Append(dbQueue, CacheArgs(Key(h), itr)) ELSE dbQueue
        /\ files' = files \ gone
        /\ it' = [it EXCEPT ![h] = itr]
        /\ log' = [log EXCEPT ![h] =
                      [lg EXCEPT !.puts = IF put THEN Append(@, CacheArgs(Key(h), itr)) ELSE @,
                                 !.unlinked = @ \cup gone]]
        /\ pc' = [pc EXCEPT ![h] = "linkDone"]

\* A step 4 that edits the caption in whatever the caption task returned.
WantsEdit_Always(itr) == TRUE

\* if (generatedCaption && sentMessage.message_id) (src/bot.js:395).
WantsEdit(itr) == Truthy(itr.generatedCaption)

\* Promise.all resolves (src/bot.js:392-395): the caption is edited in, or the
\* handler goes straight to steps 5 and 6.
Join(h) ==
    /\ pc[h] = "parallel"
    /\ it[h].cst = "done"
    /\ it[h].ust = "ok"
    /\ IF WantsEdit(it[h])
        THEN /\ pc' = [pc EXCEPT ![h] = "edit"]
             /\ UNCHANGED <<dbQueue, files, it, log>>
        ELSE CommitAndCleanup(h, it[h], log[h])
    /\ UNCHANGED <<Env, ytDlpAvailable, started, cache, links, idx, orphans>>

\* The delivered message once its caption was edited (src/bot.js:397-400).
WithCaption(delivered, c) ==
    [delivered EXCEPT ![Len(delivered)].caption = c]

\* await bot.editMessageCaption(...) settles (src/bot.js:396-405), then steps
\* 5 and 6.
EditCaption(h) ==
    /\ pc[h] = "edit"
    /\ \E ok \in BOOLEAN :
        IF ok
            THEN CommitAndCleanup(h,
                    [it[h] EXCEPT !.caption = it[h].generatedCaption],
                    [log[h] EXCEPT !.delivered = WithCaption(@, it[h].generatedCaption)])
            ELSE CommitAndCleanup(h, it[h], log[h])
    /\ UNCHANGED <<Env, ytDlpAvailable, started, cache, links, idx, orphans>>

\* The catch block (src/bot.js:431-434): the error notice is sent, or its
\* sendMessage rejects and the rejection leaves the handler.
Catch(h) ==
    /\ pc[h] = "catch"
    /\ \E ok \in BOOLEAN :
        /\ pc' = [pc EXCEPT ![h] = IF ok THEN "linkDone" ELSE "escaped"]
        /\ log' = Notice(h, "error", ok)
    /\ UNCHANGED <<Env, ytDlpAvailable, started, cache, dbQueue, files, links, idx, it, orphans>>

\* The for-loop moves to the next link or ends (src/bot.js:310, 435-436).
\* The variables of a handler that has ended are forgotten.
Advance(h) ==
    /\ pc[h] = "linkDone"
    /\ IF idx[h] < Len(links[h])
        THEN /\ idx' = [idx EXCEPT ![h] = @ + 1]
             /\ pc' = [pc EXCEPT ![h] = "typing"]
             /\ links' = links
             /\ text' = text
        ELSE /\ idx' = [idx EXCEPT ![h] = 0]
             /\ pc' = [pc EXCEPT ![h] = "finished"]
             /\ links' = [links EXCEPT ![h] = <<>>]
             /\ text' = [text EXCEPT ![h] = <<>>]
    /\ it' = [it EXCEPT ![h] = NewIt]
    /\ log' = [log EXCEPT ![h] = NewLog]
    /\ UNCHANGED <<Web, botToken, probe, ytDlpInstalled, geminiAvailable, received, sent, ytDlpAvailable, started,
                   cache, dbQueue, files, orphans>>

\* The rejection of the catch block's sendMessage leaves the async handler
\* (src/bot.js:433-436): the loop is abandoned with the links not yet reached.
Escape(h) ==
    /\ pc[h] = "escaped"
    /\ pc' = [pc EXCEPT ![h] = "aborted"]
    /\ idx' = [idx EXCEPT ![h] = 0]
    /\ links' = [links EXCEPT ![h] = <<>>]
    /\ text' = [text EXCEPT ![h] = <<>>]
    /\ it' = [it EXCEPT ![h] = NewIt]
    /\ log' = [log EXCEPT ![h] = NewLog]
    /\ UNCHANGED <<Web, botToken, probe, ytDlpInstalled, geminiAvailable, received, sent, ytDlpAvailable, started,
                   cache, dbQueue, files, orphans>>

\* A caption task whose iteration was left by an upload failure: the frame
\* extraction settles (src/bot.js:374).
OrphanFrame(h) ==
    /\ \E o \in orphans[h] :
        /\ o.st = "frame"
        /\ \E ok \in BOOLEAN :
            IF ok
                THEN /\ files' = files \cup {FramePathOf(o.src)}
                     /\ orphans' = [orphans EXCEPT ![h] = (@ \ {o}) \cup {[o EXCEPT !.st = "gen"]}]
                ELSE /\ files' = files
                     /\ orphans' = [orphans EXCEPT ![h] = @ \ {o}]
    /\ UNCHANGED <<Env, ytDlpAvailable, started, cache, dbQueue, links, idx, pc, it, log>>

\* The same task: generateCaption settles and the task ends (src/bot.js:375-383).
OrphanCaption(h) ==
    /\ \E o \in orphans[h] :
        /\ o.st = "gen"
        /\ orphans' = [orphans EXCEPT ![h] = @ \ {o}]
    /\ UNCHANGED <<Env, ytDlpAvailable, started, cache, dbQueue, files, links, idx, pc, it, log>>

\* An INSERT OR IGNORE: the row of a key that is already there is kept.
Upsert_KeepExisting(table, w) ==
    IF table[w.key] # NoRow THEN table
    ELSE [table EXCEPT ![w.key] = [fileId |-> w.fileId, caption |-> w.caption]]

\* INSERT OR REPLACE INTO cache (src/database.js:50).
Upsert(table, w) == [table EXCEPT ![w.key] = [fileId |-> w.fileId, caption |-> w.caption]]

\* sqlite runs one of the statements cacheFileId handed over
\* (src/database.js:49-59): the row is written, or the error is logged.
\* db.serialize(() => {...}) (src/database.js:5-19) covers only the two
\* statements of its callback; every later statement is scheduled in sqlite3's
\* default parallel mode, which does not promise the order of the calls.
DbRun ==
    /\ dbQueue # <<>>
    /\ \E i \in 1..Len(dbQueue), ok \in BOOLEAN :
        /\ cache' = IF ok THEN Upsert(cache, dbQueue[i]) ELSE cache
        /\ dbQueue' = SubSeq(dbQueue, 1, i - 1) \o SubSeq(dbQueue, i + 1, Len(dbQueue))
    /\ UNCHANGED <<Env, ytDlpAvailable, started, files, links, idx, pc, it, log, orphans, received, sent>>

Handler(h) ==
    \/ Receive(h)
    \/ SendTyping(h)
    \/ Lookup(h)
    \/ HitAction(h)
    \/ HitSend(h)
    \/ NotifyUnavailable(h)
    \/ DownloadError(h)
    \/ DownloadExit(h)
    \/ DownloadCallback(h)
    \/ CompNotice(h)
    \/ Ffprobe(h)
    \/ Ffmpeg(h)
    \/ CompCatch(h)
    \/ UploadAction(h)
    \/ FrameDone(h)
    \/ CaptionDone(h)
    \/ UploadDone(h)
    \/ Join(h)
    \/ EditCaption(h)
    \/ Catch(h)
    \/ Advance(h)
    \/ Escape(h)
    \/ OrphanFrame(h)
    \/ OrphanCaption(h)

\* The awaits whose completion touches neither the cache, the files nor
\* ytDlpAvailable: Telegram calls and ffprobe. Such a step commutes with every
\* step of the other handlers, of sqlite and of startBot, so it is scheduled
\* before them; the interleavings left out differ only in the order of
\* independent steps. The end of a link is scheduled first as well, except
\* that sqlite may run the statements handed to it while a handler is there,
\* so that the outcome of a write is seen next to the link that issued it.
UrgentPcs == {"typing", "hitAction", "hitSend", "notify", "compNotice", "ffprobe",
              "uploadAction", "catch", "linkDone", "escaped"}

Urgent(h) == pc[h] \in UrgentPcs

Next ==
    \/ /\ \A g \in Handlers : ~Urgent(g)
       /\ StartBot
    \/ /\ \A g \in Handlers : Urgent(g) => pc[g] = "linkDone"
       /\ DbRun
    \/ \E h \in Handlers :
        /\ \A g \in Handlers \ {h} : ~Urgent(g)
        /\ Handler(h)

Spec == Init /\ [][Next]_vars

(***************************************************************************)
(* The link extractor on its own: a text arrives and findVideoLinks is     *)
(* applied to it (src/bot.js:305-307).                                     *)
(***************************************************************************)

InitExtract ==
    /\ botToken = TRUE
    /\ probe = [h \in Handlers |-> NoProbe]
    /\ ytDlpInstalled = TRUE
    /\ geminiAvailable = FALSE
    /\ ytDlpAvailable = FALSE
    /\ started = FALSE
    /\ cache = [k \in Keys |-> NoRow]
    /\ dbQueue = <<>>
    /\ files = {}
    /\ text \in { [h \in Handlers |-> IF h = 1 THEN t ELSE <<>>] : t \in Texts }
    /\ links = [h \in Handlers |-> <<>>]
    /\ idx = [h \in Handlers |-> 0]
    /\ pc = [h \in Handlers |-> "idle"]
    /\ it = [h \in Handlers |-> NewIt]
    /\ log = [h \in Handlers |-> NewLog]
    /\ orphans = [h \in Handlers |-> {}]
    /\ received = 0
    /\ sent = {}
    /\ WebInit

\* const videoLinks = findVideoLinks(text) (src/bot.js:307).
FindLinks(h) ==
    /\ pc[h] = "idle"
    /\ links' = [links EXCEPT ![h] = LinksIn[text[h]]]
    /\ pc' = [pc EXCEPT ![h] = "extracted"]
    /\ UNCHANGED <<Env, ytDlpAvailable, started, cache, dbQueue, files, idx, it, log, orphans>>

NextExtract == \E h \in Handlers : FindLinks(h)

ExtractSpec == InitExtract /\ [][NextExtract]_vars

(***************************************************************************)
(* The cache on its own (src/database.js): callers put and get the entry   *)
(* of a key. Handler h stands for a caller working on Key(h): it calls     *)
(* cacheFileId, MaxPuts times for all callers together, and then           *)
(* getCachedFileId; sqlite runs the statements in between.                 *)
(***************************************************************************)

MaxPuts == 2

RECURSIVE PutsMade(_)
PutsMade(hs) ==
    IF hs = {} THEN 0
    ELSE LET h == CHOOSE g \in hs : TRUE
         IN  Len(log[h].puts) + PutsMade(hs \ {h})

InitCache ==
    /\ botToken = TRUE
    /\ probe = [h \in Handlers |-> NoProbe]
    /\ ytDlpInstalled = TRUE
    /\ geminiAvailable = FALSE
    /\ ytDlpAvailable = FALSE
    /\ started = FALSE
    /\ cache \in { [k \in Keys |-> NoRow],
                   [k \in Keys |-> IF k = PersistedKey THEN PersistedRow ELSE NoRow] }
    /\ dbQueue = <<>>
    /\ files = {}
    /\ text = [h \in Handlers |-> <<>>]
    /\ links \in [Handlers -> { <<l>> : l \in VideoRefs }]
    /\ idx = [h \in Handlers |-> 1]
    /\ pc = [h \in Handlers |-> "idle"]
    /\ it = [h \in Handlers |-> NewIt]
    /\ log = [h \in Handlers |-> NewLog]
    /\ orphans = [h \in Handlers |-> {}]
    /\ received = 0
    /\ sent = {}
    /\ WebInit

\* cacheFileId(reelId, fileId, caption) (src/database.js:48-60): db.run is
\* handed the INSERT OR REPLACE and the function returns; nothing is awaited.
CachePut(h) ==
    /\ pc[h] \in {"idle", "put"}
    /\ PutsMade(Handlers) < MaxPuts
    /\ \E c \in Captions :
        LET w == [key |-> Key(h), fileId |-> FileIdOf(h, Len(log[h].puts) + 1), caption |-> c]
        IN  /\ dbQueue' = Append(dbQueue, w)
            /\ log' = [log EXCEPT ![h].puts = Append(@, w)]
    /\ pc' = [pc EXCEPT ![h] = "put"]
    /\ UNCHANGED <<Env, ytDlpAvailable, started, cache, files, links, idx, it, orphans>>

\* getCachedFileId(reelId) (src/database.js:26-40) resolves.
CacheGet(h) ==
    /\ pc[h] \in {"idle", "put"}
    /\ \E err \in BOOLEAN :
        LET cached == GetCachedFileId(cache[Key(h)], err)
        IN  /\ it' = [it EXCEPT ![h].cached = cached]
            /\ log' = [log EXCEPT ![h].lookup = IF IsHit(cached) THEN "hit" ELSE "miss",
                                  ![h].row = cache[Key(h)],
                                  ![h].readErr = err]
    /\ pc' = [pc EXCEPT ![h] = "got"]
    /\ UNCHANGED <<Env, ytDlpAvailable, started, cache, dbQueue, files, links, idx, orphans>>

NextCache ==
    \/ DbRun
    \/ \E h \in Handlers : CachePut(h) \/ CacheGet(h)

CacheSpec == InitCache /\ [][NextCache]_vars


(***************************************************************************)
(* The metadata proxy on its own (src/server.js:188-218): requests for     *)
(* GET /tg/:reelId arrive, the page of a reel is fetched, time passes.     *)
(***************************************************************************)

\* The variables of the bot.
Bot == <<botToken, probe, ytDlpInstalled, geminiAvailable, ytDlpAvailable, started, cache, dbQueue,
         files, text, links, idx, pc, it, log, orphans, received, sent>>

InitServer ==
    /\ botToken = TRUE
    /\ probe = [h \in Handlers |-> NoProbe]
    /\ ytDlpInstalled = TRUE
    /\ geminiAvailable = FALSE
    /\ ytDlpAvailable = FALSE
    /\ started = FALSE
    /\ cache = [k \in Keys |-> NoRow]
    /\ dbQueue = <<>>
    /\ files = {}
    /\ text = [h \in Handlers |-> <<>>]
    /\ links = [h \in Handlers |-> <<>>]
    /\ idx = [h \in Handlers |-> 0]
    /\ pc = [h \in Handlers |-> "idle"]
    /\ it = [h \in Handlers |-> NewIt]
    /\ log = [h \in Handlers |-> NewLog]
    /\ orphans = [h \in Handlers |-> {}]
    /\ received = 0
    /\ sent = {}
    /\ WebInit

\* A handler that answers every request with the page.
Respond_AlwaysPage(reelsData, fault) ==
    [status |-> 200, html |-> generateHTML(reelsData)]

\* The response of the handler (src/server.js:206-217): the 500 of the catch
\* block when a statement of the try block threw, the 404 when reelsData is
\* null, else the generated page.
Respond(reelsData, fault) ==
    IF fault THEN [status |-> 500, html |-> NoHtml]
    ELSE IF reelsData = NoData THEN [status |-> 404, html |-> NoHtml]
    ELSE [status |-> 200, html |-> generateHTML(reelsData)]

\* A request arrives (src/server.js:188-199): getCachedData is called; with
\* cached data the response is sent at once (206-212), without it the handler
\* awaits extractReelsData.
Get(r) ==
    /\ req[r].pc \in {"idle", "done"}
    /\ arrived < MaxRequests
    /\ arrived' = arrived + 1
    /\ \E reelId \in ReelIds, fault \in BOOLEAN :
        LET cachedData == getCachedData(metaCache, reelId, clock)
        IN  /\ metaCache' = AfterGetCachedData(metaCache, reelId, clock)
            /\ req' = [req EXCEPT ![r] =
                          IF cachedData # NoData
                              THEN [ n |-> arrived + 1, pc |-> "done", reelId |-> reelId, hit |-> TRUE,
                                     reelsData |-> cachedData,
                                     responses |-> <<Respond(cachedData, fault)>> ]
                              ELSE [ n |-> arrived + 1, pc |-> "fetching", reelId |-> reelId, hit |-> FALSE,
                                     reelsData |-> NoData,
                                     responses |-> <<>> ]]
    /\ UNCHANGED <<Bot, clock>>

\* extractReelsData resolves (src/server.js:43-103, 200-212): with the data of
\* the page axios fetched, or with null after a network error, a timeout or a
\* parsing error; data is stored, and the response is sent.
FetchDone(r) ==
    /\ req[r].pc = "fetching"
    /\ \E failed \in BOOLEAN, page \in Pages, fault \in BOOLEAN :
        LET reelsData == IF failed THEN NoData
                         ELSE extractReelsData(InstagramUrl(req[r].reelId), page)
        IN  /\ metaCache' = IF reelsData # NoData
                               THEN setCachedData(metaCache, req[r].reelId, reelsData, clock)
                               ELSE metaCache
            /\ req' = [req EXCEPT ![r].pc = "done",
                                  ![r].reelsData = reelsData,
                                  ![r].responses = Append(@, Respond(reelsData, fault))]
    /\ UNCHANGED <<Bot, clock, arrived>>

\* A minute passes.
Tick ==
    /\ clock < MaxMinutes * Minute
    /\ clock' = clock + Minute
    /\ UNCHANGED <<Bot, metaCache, req, arrived>>

NextServer ==
    \/ Tick
    \/ \E r \in Requests : Get(r) \/ FetchDone(r)

ServerSpec == InitServer /\ [][NextServer]_vars


(***************************************************************************)
(* compressVideo on its own (src/bot.js:107-157, 343-362): each handler    *)
(* has downloaded a file over 50 MB, has sent the progress notice and has  *)
(* called compressVideo; the outcome of ffprobe is given in probe.         *)
(***************************************************************************)

\* The ffprobe outcomes tried: durations at both sides of the limit of
\* 45 * 8 * 1024 / (100 + 128) = 1616.8 seconds.
ProbeInputs == ProbeOf({-1, 0, 1, 60, 1616, 1617, 4000})

InitCompress ==
    /\ botToken = TRUE
    /\ probe \in [Handlers -> ProbeInputs]
    /\ ytDlpInstalled = TRUE
    /\ geminiAvailable = FALSE
    /\ ytDlpAvailable = TRUE
    /\ started = TRUE
    /\ cache = [k \in Keys |-> NoRow]
    /\ dbQueue = <<>>
    /\ text = [h \in Handlers |-> <<>>]
    /\ links \in [Handlers -> { <<l>> : l \in VideoRefs }]
    /\ idx = [h \in Handlers |-> 1]
    /\ files = { OutputPath(CacheKey(links[h][1])) : h \in Handlers }
    /\ pc = [h \in Handlers |-> "ffprobe"]
    /\ it = [h \in Handlers |-> [NewIt EXCEPT !.videoPath = OutputPath(CacheKey(links[h][1]))]]
    /\ log = [h \in Handlers |->
                 [NewLog EXCEPT !.lookup = "miss",
                                !.calls = [NoCalls EXCEPT !.download = 1, !.compress = 1],
                                !.notices = <<[kind |-> "compressing", ok |-> TRUE]>>,
                                !.created = {OutputPath(CacheKey(links[h][1]))}]]
    /\ orphans = [h \in Handlers |-> {}]
    /\ received = NumHandlers
    /\ sent = {}
    /\ WebInit

\* The ffprobe callback with the outcome given for handler h.
FfprobeGiven(h) ==
    /\ pc[h] = "ffprobe"
    /\ FfprobeCallback(h, probe[h])
    /\ UNCHANGED <<Env, ytDlpAvailable, started, cache, dbQueue, files, links, idx, orphans>>

NextCompress ==
    \E h \in Handlers : FfprobeGiven(h) \/ Ffmpeg(h) \/ CompCatch(h) \/ Catch(h)

CompressSpec == InitCompress /\ [][NextCompress]_vars


(***************************************************************************)
(* downloadVideo on its own (src/bot.js:76-99, 314-335): each handler has  *)
(* missed the cache and has called downloadVideo(url, cacheKey) for a link *)
(* whose id is one of PathIds.                                             *)
(***************************************************************************)

\* The ids tried: up to MaxIdLen characters out of a letter, ':' and '_', all
\* of which the id patterns [^\/?]+ and [^&\s]+ (src/bot.js:44, 56) admit.
MaxIdLen == 2
PathIds == SeqsUpTo({"a", ":", "_"}, MaxIdLen) \ {<<>>}
PathRefs == { [type |-> t, videoId |-> v] : t \in {"instagram", "youtube"}, v \in PathIds }

InitPath ==
    /\ botToken = TRUE
    /\ probe = [h \in Handlers |-> NoProbe]
    /\ ytDlpInstalled = TRUE
    /\ geminiAvailable = FALSE
    /\ ytDlpAvailable = TRUE
    /\ started = TRUE
    /\ cache = [k \in Keys |-> NoRow]
    /\ dbQueue = <<>>
    /\ files = {}
    /\ text = [h \in Handlers |-> <<>>]
    /\ links \in [Handlers -> { <<l>> : l \in PathRefs }]
    /\ idx = [h \in Handlers |-> 1]
    /\ pc = [h \in Handlers |-> "download"]
    /\ it = [h \in Handlers |-> NewIt]
    /\ log = [h \in Handlers |->
                 [NewLog EXCEPT !.lookup = "miss", !.calls = [NoCalls EXCEPT !.download = 1]]]
    /\ orphans = [h \in Handlers |-> {}]
    /\ received = NumHandlers
    /\ sent = {}
    /\ WebInit

NextPath ==
    \E h \in Handlers : DownloadExit(h) \/ DownloadError(h) \/ DownloadCallback(h)

PathSpec == InitPath /\ [][NextPath]_vars


(***************************************************************************)
(* Properties.                                                             *)
(***************************************************************************)

\* The link of handler h has reached DONE: its iteration ended by continue
\* or by falling out of the try/catch.
Done(h) == pc[h] = "linkDone"


\* The notices of the iteration that Telegram accepted.
OkNotices(h) == SelectSeq(log[h].notices, LAMBDA n : n.ok)

HasNotice(h, kind) == \E i \in 1..Len(log[h].notices) : log[h].notices[i].kind = kind

\* Handler h is between the start of the download and the end of the
\* delivery of its current link (src/bot.js:335-410).
InPipeline(h) ==
    pc[h] \in {"download", "dlCallback", "compNotice", "ffprobe", "ffmpeg", "compCatch",
               "uploadAction", "parallel", "edit"}

\* The row the cache lookup of the iteration found in the table, as
\* getCachedFileId reports it.
FoundRow(h) == [fileId |-> log[h].row.fileId, caption |-> OrNull(log[h].row.caption)]

\* C1: after a cache hit the iteration calls neither the downloader, the
\* transcoder, the frame extractor nor the captioner, creates no file, hands
\* no statement to the cache, and delivers nothing but one sendVideo of the
\* cached file id with the cached caption.
C1_CacheHitOnlyDelivers ==
    \A h \in Handlers :
        log[h].lookup = "hit" =>
            /\ log[h].calls = NoCalls
            /\ log[h].created = {}
            /\ log[h].puts = <<>>
            /\ \/ log[h].delivered = <<>>
               \/ log[h].delivered = <<CachedDelivery(FoundRow(h))>>
            /\ ~InPipeline(h)

C1_Witness ==
    \E h \in Handlers :
        /\ Done(h)
        /\ log[h].lookup = "hit"
        /\ log[h].delivered = <<CachedDelivery(FoundRow(h))>>

\* The cache read of handler h resolves in this step.
LookupStep(h) == pc[h] = "lookup" /\ pc'[h] # "lookup"

\* C2 as stated: once the table holds a row for a key, every later lookup of
\* that key takes the hit branch with that row and starts no download.
C2_RepeatAlwaysServedFromCache ==
    [][\A h \in Handlers :
        (LookupStep(h) /\ cache[Key(h)] # NoRow) =>
            /\ pc'[h] = "hitAction"
            /\ it'[h].cached.fileId = cache[Key(h)].fileId
            /\ log'[h].calls.download = 0]_vars

\* C2 amended: once the table holds a row for a key, every later lookup of
\* that key whose read does not fail takes the hit branch with the file id
\* and caption the table holds at the time of the read, and starts no
\* download; a read that fails is a miss.
C2_RepeatServedUnlessReadError ==
    [][\A h \in Handlers :
        (LookupStep(h) /\ cache[Key(h)] # NoRow) =>
            \/ /\ log'[h].readErr
               /\ pc'[h] \in {"notify", "download"}
            \/ /\ ~log'[h].readErr
               /\ pc'[h] = "hitAction"
               /\ it'[h].cached = [fileId |-> cache[Key(h)].fileId,
                                   caption |-> OrNull(cache[Key(h)].caption)]
               /\ log'[h].calls.download = 0]_vars

\* A lookup hit a row that a pipeline of this run committed.
C2_Witness ==
    \E h \in Handlers :
        /\ log[h].lookup = "hit"
        /\ log[h].row.fileId # PersistedFile
        /\ Done(h)

\* C3: a row of the cache table, and a statement on its way to the table,
\* carries a file id that sendVideo returned with a video for that very key
\* (or is the row an earlier run left behind).
C3_EntryOnlyAfterUpload ==
    /\ \A k \in Keys :
        cache[k] # NoRow =>
            \/ k = PersistedKey /\ cache[k] = PersistedRow
            \/ [key |-> k, fileId |-> cache[k].fileId] \in sent
    /\ \A i \in 1..Len(dbQueue) :
        [key |-> dbQueue[i].key, fileId |-> dbQueue[i].fileId] \in sent

C3_Witness ==
    \E k \in Keys :
        /\ cache[k] # NoRow
        /\ cache[k].fileId # PersistedFile
        /\ [key |-> k, fileId |-> cache[k].fileId] \in sent

\* C4 as stated: no two handlers are between download and delivery for the
\* same key at the same time.
C4_SingleFlightPerKey ==
    \A h, g \in Handlers :
        (h # g /\ InPipeline(h) /\ InPipeline(g)) => Key(h) # Key(g)

\* C4 amended: the only gate in front of the download-to-deliver sequence is
\* the handler's own cache lookup: a handler is in the sequence for a key
\* only after its own lookup of that key missed (no row, or a failed read)
\* with the downloader available, and it has called the downloader once.
C4_PipelineOnlyAfterOwnMiss ==
    \A h \in Handlers :
        InPipeline(h) =>
            /\ log[h].lookup = "miss"
            /\ log[h].row = NoRow \/ log[h].readErr
            /\ ~log[h].unavailable
            /\ log[h].calls.download = 1

\* Two handlers are in the sequence for the same key.
C4_Witness ==
    \E h, g \in Handlers :
        /\ h # g
        /\ InPipeline(h) /\ InPipeline(g)
        /\ Key(h) = Key(g)
        /\ pc[h] = "parallel" /\ pc[g] = "parallel"

\* C5 as stated: when a link reaches DONE, every temporary file its
\* iteration created has been handed to fs.unlink.
C5_AllTempFilesUnlinked ==
    \A h \in Handlers :
        Done(h) => log[h].created \subseteq log[h].unlinked

\* C6 as stated: a failure in the processing of one link is answered by a
\* notice and never leaves the handler while links are still to be processed.
C6_NoFailureEscapes ==
    \A h \in Handlers :
        /\ (Done(h) /\ log[h].thrown) => Len(OkNotices(h)) >= 1
        /\ ~(pc[h] = "escaped" /\ idx[h] < Len(links[h]))

\* C7: after a miss with the downloader unavailable the iteration calls no
\* downloader, transcoder or upload, hands nothing to the cache and delivers
\* nothing; Telegram never accepts more than one notice for the link, and
\* exactly one when the link reaches DONE.
C7_UnavailableOneNotice ==
    \A h \in Handlers :
        (log[h].lookup = "miss" /\ log[h].unavailable) =>
            /\ log[h].calls = NoCalls
            /\ log[h].puts = <<>>
            /\ log[h].delivered = <<>>
            /\ ~InPipeline(h)
            /\ Len(OkNotices(h)) <= 1
            /\ Done(h) => Len(OkNotices(h)) = 1

C7_Witness ==
    \E h \in Handlers :
        /\ Done(h)
        /\ log[h].lookup = "miss"
        /\ log[h].unavailable
        /\ log[h].notices = <<[kind |-> "unavailable", ok |-> TRUE]>>

\* C8 as stated: with the downloader unavailable, a link whose key is in the
\* table gets no 'downloader unavailable' notice.
C8_KeyInCacheNeverNotified ==
    \A h \in Handlers :
        (log[h].lookup # "none" /\ log[h].row # NoRow /\ log[h].unavailable) =>
            /\ pc[h] # "notify"
            /\ ~HasNotice(h, "unavailable")

\* C8 amended: with the downloader unavailable, a link whose cache lookup
\* returns the row gets no 'downloader unavailable' notice and no download,
\* and what is delivered when the Telegram calls succeed is the cached file
\* id with the cached caption; a failed read of the row is a miss.
C8_HitDeliveredInFallback ==
    \A h \in Handlers :
        (log[h].lookup = "hit" /\ log[h].unavailable) =>
            /\ pc[h] # "notify"
            /\ ~HasNotice(h, "unavailable")
            /\ log[h].calls = NoCalls
            /\ (Done(h) /\ ~log[h].thrown) =>
                    log[h].delivered = <<CachedDelivery(FoundRow(h))>>

C8_Witness ==
    \E h \in Handlers :
        /\ Done(h)
        /\ ~ytDlpAvailable
        /\ log[h].lookup = "hit"
        /\ log[h].unavailable
        /\ log[h].delivered = <<CachedDelivery(FoundRow(h))>>

\* C9: once compressVideo has succeeded, every upload of the iteration reads
\* the compressed file, and when the upload has succeeded and the link has
\* reached DONE neither the downloaded nor the compressed file is left.
C9_CompressedUploadedAndBothRemoved ==
    \A h \in Handlers :
        it[h].compressedPath # NoPath =>
            /\ it[h].compressedPath = CompressedPathOf(OutputPath(Key(h)))
            /\ \A i \in 1..Len(log[h].delivered) :
                /\ log[h].delivered[i].src = "file"
                /\ log[h].delivered[i].path = it[h].compressedPath
            /\ (Done(h) /\ log[h].delivered # <<>>) =>
                /\ OutputPath(Key(h)) \notin files
                /\ it[h].compressedPath \notin files
                /\ it[h].compressedPath \in log[h].unlinked

C9_Witness ==
    \E h \in Handlers :
        /\ Done(h)
        /\ it[h].compressedPath # NoPath
        /\ Len(log[h].delivered) = 1
        /\ {OutputPath(Key(h)), it[h].compressedPath} \subseteq log[h].unlinked

\* C10 as stated: when compressVideo has failed and the link reaches DONE,
\* no statement went to the cache, no upload was started, and every
\* temporary file of the iteration has been handed to fs.unlink.
C10_CompressFailureCleansUp ==
    \A h \in Handlers :
        (Done(h) /\ log[h].compressError = "compress") =>
            /\ log[h].puts = <<>>
            /\ log[h].calls.upload = 0
            /\ log[h].created \subseteq log[h].unlinked

\* The message delivered last in the iteration of handler h.
LastDelivered(h) == log[h].delivered[Len(log[h].delivered)]

\* C11 as stated: the caption handed to the cache after a fresh delivery is
\* the caption the delivered message carries: the generated caption when it
\* was attached, and null (or the empty string, which the cache reads back
\* as null) when the message has no caption.
C11_CachedCaptionIsAttachedCaption ==
    \A h \in Handlers :
        (log[h].lookup = "miss" /\ log[h].puts # <<>>) =>
            /\ log[h].delivered # <<>>
            /\ OrNull(log[h].puts[Len(log[h].puts)].caption) = LastDelivered(h).caption

\* The caption task of the iteration of handler h has ended without a
\* caption: the captioner is unavailable, or the frame extraction or the
\* caption generation failed (src/bot.js:372-384).
NoCaption(h) ==
    /\ log[h].lookup = "miss"
    /\ it[h].cst = "done"
    /\ it[h].generatedCaption = Null

\* C12: a caption task that ends without a caption neither throws nor sends
\* a notice: while the upload runs the handler keeps waiting for it, and
\* once the upload has succeeded the link reaches DONE with the video
\* delivered without a caption, no caption edit, and the file id sendVideo
\* returned handed to the cache with a null caption.
C12_CaptionIsBestEffort ==
    \A h \in Handlers :
        /\ (NoCaption(h) /\ it[h].ust = "sending") =>
                pc[h] = "parallel" /\ ~log[h].thrown
        /\ (NoCaption(h) /\ it[h].ust = "ok") =>
            /\ pc[h] \in {"parallel", "linkDone"}
            /\ ~log[h].thrown
            /\ ~HasNotice(h, "error")
            /\ log[h].delivered =
                    <<[src |-> "file", fileId |-> it[h].sentMessage.fileId,
                       path |-> it[h].videoPath, caption |-> Null]>>
            /\ (Done(h) /\ it[h].sentMessage.video) =>
                    log[h].puts = <<[key |-> Key(h), fileId |-> it[h].sentMessage.fileId,
                                     caption |-> Null]>>

\* A link whose frame extraction or caption generation failed was delivered
\* and cached.
C12_Witness ==
    \E h \in Handlers :
        /\ Done(h)
        /\ NoCaption(h)
        /\ log[h].calls.frame = 1
        /\ Len(log[h].delivered) = 1
        /\ Len(log[h].puts) = 1

\* An external process or remote call of the current link of handler h is
\* running: yt-dlp, ffprobe, ffmpeg, the frame extraction, the captioner or
\* the upload.
ExternalCallRunning(h) ==
    \/ pc[h] \in {"download", "ffprobe", "ffmpeg"}
    \/ pc[h] = "parallel" /\ (it[h].cst \in {"frame", "gen"} \/ it[h].ust = "sending")

\* C13 as stated: while an external call for the current link of a message
\* runs, no external call for an earlier link of the same message is still
\* running.
C13_LinksSequential ==
    \A h \in Handlers : ExternalCallRunning(h) => orphans[h] = {}

\* The links findVideoLinks found in the text of the message of handler h,
\* each with the position where it occurs in the text.
Found(h) == LinksIn[text[h]]

\* C14 as stated: the handler works on the links of the text in the order of
\* their occurrence in the text, whatever their providers: the link it is
\* working on occurs before every link it will work on later.
C14_ProcessedInTextOrder ==
    \A h \in Handlers :
        idx[h] >= 1 =>
            /\ links[h] = Refs(Found(h))
            /\ \A j \in 1..Len(Found(h)) :
                j > idx[h] => Found(h)[idx[h]].index < Found(h)[j].index

\* C15: the handler's list has one link per match of the two regular
\* expressions in the text, a repeated link as often as it occurs, the loop
\* visits every position of the list, and every pass starts from scratch:
\* nothing of an earlier pass is left in the variables of the iteration.
C15_OnePassPerOccurrence ==
    \A h \in Handlers :
        idx[h] >= 1 =>
            /\ links[h] = Refs(Found(h))
            /\ Len(links[h]) = MatchesIn[text[h]]
            /\ idx[h] <= Len(links[h])
            /\ pc[h] = "typing" => (it[h] = NewIt /\ log[h] = NewLog)
            /\ (pc[h] = "linkDone" /\ log[h].lookup = "none") => log[h].thrown

\* The second occurrence of a link is in a pass of its own, past its own
\* cache lookup.
C15_Witness ==
    \E h \in Handlers :
        /\ idx[h] = 2
        /\ links[h][1] = links[h][2]
        /\ log[h].lookup # "none"
        /\ Done(h)

\* C16: a handler whose text has no match of either regular expression has
\* an empty list of links and has returned before the loop: it has sent no
\* chat action, message or video, has read and written no cache entry and
\* has created no file.
C16_NoLinksNoEffect ==
    \A h \in Handlers :
        (pc[h] \notin {"idle", "finished", "aborted"} /\ MatchesIn[text[h]] = 0) =>
            /\ Found(h) = <<>>
            /\ links[h] = <<>>
            /\ pc[h] = "returned"
            /\ idx[h] = 0
            /\ it[h] = NewIt
            /\ log[h] = NewLog
            /\ orphans[h] = {}

\* A text of a plain word was received.
C16_Witness ==
    \E h \in Handlers :
        /\ pc[h] = "returned"
        /\ text[h] = Plain
        /\ \E g \in Handlers : g # h /\ pc[g] = "finished"

\* The symbols that end the id of a link in a text.
EndsAt(s, i, stop) == i > Len(s) \/ s[i] \in stop

\* The result of findVideoLinks has a reference of the given type and id.
Yields(ls, type, videoId) ==
    \E k \in 1..Len(ls) : ls[k].type = type /\ ls[k].videoId = videoId

\* The result has a reference of the given type and id for the match that
\* starts at position i of the text.
YieldsAt(ls, i, type, videoId) ==
    \E k \in 1..Len(ls) :
        ls[k].index = i /\ ls[k].type = type /\ ls[k].videoId = videoId

ReelPath == <<"instagram.com", "/", "reel", "/">>

WatchPath == <<"youtube.com", "/", "watch", "?", "v=">>

C19_ReadErrorIsMiss ==
    [][\A h \in Handlers :
        (LookupStep(h) /\ log'[h].readErr) =>
            /\ it'[h].cached = NoRow
            /\ log'[h].lookup = "miss"
            /\ ~log'[h].thrown
            /\ log'[h].notices = <<>>
            /\ pc'[h] = IF ytDlpAvailable THEN "download" ELSE "notify"
            /\ pc'[h] = AfterLookup(NoRow, ytDlpAvailable)]_vars

\* A read of a key that has a row failed and the handler went on to the
\* download.
C19_Witness ==
    \E h \in Handlers :
        /\ log[h].readErr
        /\ log[h].row # NoRow
        /\ log[h].lookup = "miss"
        /\ pc[h] = "download"

\* The statement w that cacheFileId handed to sqlite has been run and its row
\* is not in the table: the write failed (or another handler's write for the
\* same key replaced it).
PutLost(w) ==
    /\ \A i \in 1..Len(dbQueue) : dbQueue[i] # w
    /\ cache[w.key].fileId # w.fileId

\* C20: when the cache write of a delivered link has failed, the handler is
\* where it is after every delivery: at the end of the link without having
\* entered a catch block, with no error notice sent, with the cleanup of
\* step 6 done (the uploaded file and the frame handed to fs.unlink), and
\* free to go on to the next link.
C20_FailedPutOnlyLogged ==
    \A h \in Handlers :
        (log[h].puts # <<>> /\ PutLost(log[h].puts[1])) =>
            /\ Done(h)
            /\ ~log[h].thrown
            /\ ~HasNotice(h, "error")
            /\ ~HasNotice(h, "compressFailed")
            /\ Len(log[h].delivered) = 1
            /\ it[h].videoPath \in log[h].unlinked
            /\ it[h].framePath # NoPath => it[h].framePath \in log[h].unlinked
            /\ ENABLED Advance(h)

\* The write of a delivered link failed: the link is done, its statement has
\* been run and the table has no row for its key.
C20_Witness ==
    \E h \in Handlers :
        /\ Done(h)
        /\ Len(log[h].puts) = 1
        /\ dbQueue = <<>>
        /\ cache[Key(h)] = NoRow
        /\ idx[h] < Len(links[h])

\* The put handler h made last, and the row it writes.
LastPut(h) == log[h].puts[Len(log[h].puts)]
RowOf(w) == [fileId |-> w.fileId, caption |-> w.caption]

\* The step in which getCachedFileId of caller h resolves.
GetStep(h) == pc[h] # "got" /\ pc'[h] = "got"

\* C21 as stated: a get that follows a put, reads the row this put wrote and
\* meets no read error returns exactly the handle and the caption of the put.
C21_RoundTripExact ==
    [][\A h \in Handlers :
        (/\ GetStep(h)
         /\ log[h].puts # <<>>
         /\ cache[Key(h)] = RowOf(LastPut(h))
         /\ ~log'[h].readErr)
        => it'[h].cached = RowOf(LastPut(h))]_vars

\* C21: a get that follows a put, reads the row this put wrote and meets no
\* read error is a hit with the handle of the put and with its caption, an
\* empty caption coming back as null; a get on a key without a row returns
\* absent.
C21_RoundTrip ==
    [][\A h \in Handlers :
        GetStep(h) =>
            /\ (/\ log[h].puts # <<>>
                /\ cache[Key(h)] = RowOf(LastPut(h))
                /\ ~log'[h].readErr)
               => /\ IsHit(it'[h].cached)
                  /\ it'[h].cached.fileId = LastPut(h).fileId
                  /\ it'[h].cached.caption = OrNull(LastPut(h).caption)
            /\ cache[Key(h)] = NoRow => ~IsHit(it'[h].cached)]_vars

\* A caller put an empty caption, sqlite wrote the row, and the get that
\* followed read it without error.
C21_Witness ==
    \E h \in Handlers :
        /\ pc[h] = "got"
        /\ log[h].puts # <<>>
        /\ log[h].row = RowOf(LastPut(h))
        /\ ~log[h].readErr
        /\ LastPut(h).caption = ""
        /\ log[h].lookup = "hit"

\* The statements still pending once sqlite has taken the i-th one.
Without(q, i) == SubSeq(q, 1, i - 1) \o SubSeq(q, i + 1, Len(q))

\* C22 as stated: after two puts of one caller on its key, both run by
\* sqlite and no other caller writing, a get without read error returns the
\* handle and the caption of the second put.
C22_SecondPutWins ==
    [][\A h \in Handlers :
        (/\ GetStep(h)
         /\ Len(log[h].puts) = 2
         /\ dbQueue = <<>>
         /\ \A g \in Handlers \ {h} : log[g].puts = <<>>
         /\ ~log'[h].readErr)
        => /\ it'[h].cached.fileId = log[h].puts[2].fileId
           /\ it'[h].cached.caption = OrNull(log[h].puts[2].caption)]_vars

\* C22: the table holds one row per key, and every pending put can be run
\* with success whatever row its key holds: the run leaves exactly the handle
\* and the caption of that put under its key and no other row changed, so the
\* entry of a key is that of the write run last.
C22_UpsertReplaces ==
    /\ DOMAIN cache = Keys
    /\ \A i \in 1..Len(dbQueue) :
        ENABLED (/\ DbRun
                 /\ dbQueue' = Without(dbQueue, i)
                 /\ cache'[dbQueue[i].key] = RowOf(dbQueue[i])
                 /\ \A k \in Keys \ {dbQueue[i].key} : cache'[k] = cache[k])

\* The first put of a caller has been written and its second put, with
\* another handle, is pending on the same key.
C22_Witness ==
    \E h \in Handlers :
        /\ Len(log[h].puts) = 2
        /\ dbQueue = <<log[h].puts[2]>>
        /\ cache[Key(h)] = RowOf(log[h].puts[1])
        /\ log[h].puts[1].fileId # log[h].puts[2].fileId

\* The step in which request r arrives and looks its reel id up, and the step
\* in which its fetch ends with data.
Arrives(r) == arrived' = arrived + 1 /\ req'[r].n = arrived'
Stores(r) == req[r].pc = "fetching" /\ req'[r].pc = "done" /\ req'[r].reelsData # NoData

\* C23: a request is served from the metadata cache exactly when the entry of
\* its reel id was stored less than CACHE_TTL (5 minutes) ago, and it is then
\* given the data stored last; an entry of 5 minutes or more is removed by
\* the lookup and the request fetches the page again; a fetch that ends with
\* data stores it with the time of that moment.
C23_ServedOnlyWithinTtl ==
    [][\A r \in Requests :
        /\ Arrives(r) =>
            LET id == req'[r].reelId
                e == metaCache[id]
            IN  /\ (e # NoEntry /\ clock - e.timestamp < CACHE_TTL)
                   => /\ req'[r].hit
                      /\ req'[r].reelsData = e.data
                      /\ req'[r].pc = "done"
                      /\ metaCache' = metaCache
                /\ (e # NoEntry /\ clock - e.timestamp >= CACHE_TTL)
                   => /\ ~req'[r].hit
                      /\ metaCache'[id] = NoEntry
                      /\ req'[r].pc = "fetching"
                /\ e = NoEntry
                   => /\ ~req'[r].hit
                      /\ req'[r].pc = "fetching"
        /\ Stores(r) =>
            metaCache'[req[r].reelId] = [data |-> req'[r].reelsData, timestamp |-> clock]]_vars

\* One request was served from the cache, and five minutes after the first
\* request a later one for the same reel found the entry too old: the entry is
\* gone and that request is fetching the page.
C23_Witness ==
    \E r, q \in Requests :
        /\ req[q].pc = "done"
        /\ req[q].hit
        /\ req[r].n > req[q].n
        /\ req[r].reelId = req[q].reelId
        /\ req[r].pc = "fetching"
        /\ metaCache[req[r].reelId] = NoEntry
        /\ clock = CACHE_TTL

\* C24: a request that has been handled has exactly one response and a
\* request still fetching has none; the response is the generated page with
\* the og: tags of the resolved data (from the cache or from the fetch), or
\* the 500 of the catch block, when the resolution gave data, and the 404, or
\* the 500, when it gave none.
C24_OneResponsePerRequest ==
    \A r \in Requests :
        /\ req[r].pc = "done" => Len(req[r].responses) = 1
        /\ req[r].pc # "done" => req[r].responses = <<>>
        /\ \A i \in 1..Len(req[r].responses) :
            LET res == req[r].responses[i]
            IN  /\ res.status \in {200, 404, 500}
                /\ res.status = 200 =>
                    /\ req[r].reelsData # NoData
                    /\ res.html = generateHTML(req[r].reelsData)
                    /\ res.html.ogTitle = req[r].reelsData.title
                    /\ res.html.ogImage # <<>>
                /\ res.status = 404 => req[r].reelsData = NoData /\ ~req[r].hit
                /\ res.status # 200 => res.html = NoHtml
                /\ req[r].reelsData = NoData => res.status # 200
                /\ req[r].reelsData # NoData => res.status # 404

\* One request was answered with the page from the cache and another, whose
\* fetch failed, with the 404.
C24_Witness ==
    \E r, q \in Requests :
        /\ req[r].pc = "done"
        /\ req[r].hit
        /\ req[r].responses[1].status = 200
        /\ req[q].pc = "done"
        /\ req[q].responses[1].status = 404

\* The value v has none of the characters ' " < >.
Clean(v) == \A i \in 1..Len(v) : v[i] \notin Dangerous

\* C25: no value interpolated into a page the proxy has sent contains one of
\* the characters ' " < >.
C25_NoDangerousCharInHtml ==
    \A r \in Requests :
        \A i \in 1..Len(req[r].responses) :
            LET html == req[r].responses[i].html
            IN  /\ Clean(html.ogTitle)
                /\ Clean(html.ogDescription)
                /\ Clean(html.ogImage)
                /\ Clean(html.ogVideo)
                /\ Clean(html.ogVideoSecureUrl)
                /\ Clean(html.ogVideoType)
                /\ Clean(html.title)
                /\ Clean(html.iframeSrc)
                /\ Clean(html.fallbackTitle)
                /\ Clean(html.fallbackDescription)

\* C26: a bot process without BOT_TOKEN never reaches the listening state.
C26_NoTokenNeverListening == ~botToken => ~started

\* The notices of one kind the iteration of handler h has issued.
NoticesOf(h, kind) == SelectSeq(log[h].notices, LAMBDA n : n.kind = kind)

\* C27: for the link a handler is working on, the download, the compression
\* (and its encoder) and the upload have each been invoked at most once; a
\* call that failed has led to the catch block, which issues its notice once,
\* and the handler never returns from there to the call.
C27_NoRetry ==
    \A h \in Handlers :
        /\ log[h].calls.download <= 1
        /\ log[h].calls.compress <= 1
        /\ log[h].calls.encoder <= 1
        /\ log[h].calls.upload <= 1
        /\ Len(NoticesOf(h, "error")) <= 1
        /\ Len(NoticesOf(h, "compressFailed")) <= 1
        /\ log[h].thrown => pc[h] \in {"catch", "linkDone", "escaped"}
        /\ log[h].compressError # "none" =>
            pc[h] \in {"compCatch", "compCleanup", "catch", "linkDone", "escaped"}

\* The download of a link failed: it was invoked once, the error notice was
\* issued once, nothing was uploaded and the link is done.
C27_Witness ==
    \E h \in Handlers :
        /\ Done(h)
        /\ log[h].thrown
        /\ log[h].calls.download = 1
        /\ log[h].calls.upload = 0
        /\ Len(NoticesOf(h, "error")) = 1

\* The duration ffprobe reported to handler h is no positive number, or
\* floor(45 * 8 * 1024 / duration - 128) is below 100.
Abandons(h) ==
    \/ probe[h].error
    \/ probe[h].nan
    \/ probe[h].secs <= 0
    \/ ((45 * 8 * 1024) \div probe[h].secs) - 128 < 100

\* C28: once the ffprobe callback of a compressVideo call has run, either the
\* call was abandoned (no duration, a duration that is no positive number, or
\* floor(45*8*1024/duration - 128) < 100): the encoder was never invoked and
\* the handler is about to send, or has sent, the compression-failure
\* notice; or the encoder was invoked exactly once, with the video bitrate
\* floor(45*8*1024/duration - 128) >= 100 and 128 kbit/s audio.
C28_BitrateFloor ==
    \A h \in Handlers :
        pc[h] # "ffprobe" =>
            IF Abandons(h)
                THEN /\ log[h].calls.encoder = 0
                     /\ it[h].ffmpeg = NoCmd
                     /\ log[h].compressError = "compress"
                     /\ pc[h] = "compCatch" \/ HasNotice(h, "compressFailed")
                     /\ log[h].calls.upload = 0
                ELSE /\ log[h].calls.encoder = 1
                     /\ pc[h] = "ffmpeg" =>
                         /\ it[h].ffmpeg.videoBitrate = ((45 * 8 * 1024) \div probe[h].secs) - 128
                         /\ it[h].ffmpeg.videoBitrate >= 100
                         /\ it[h].ffmpeg.audioBitrate = 128

\* One handler's video of 1617 seconds was abandoned and the failure notice
\* reached the user, while the encoder of another, of 1616 seconds, is running
\* at 100 kbit/s.
C28_Witness ==
    \E h, g \in Handlers :
        /\ probe[h].secs = 1617
        /\ pc[h] = "linkDone"
        /\ [kind |-> "compressFailed", ok |-> TRUE] \in { log[h].notices[i] : i \in 1..Len(log[h].notices) }
        /\ probe[g].secs = 1616
        /\ ~probe[g].nan /\ ~probe[g].error
        /\ pc[g] = "ffmpeg"
        /\ it[g].ffmpeg.videoBitrate = 100

\* C29: every reference the extractor has emitted has a non-empty videoId,
\* the one its provider's id pattern captures in its url; a link that matches
\* a provider's link pattern but has no id the id pattern can capture (an
\* instagram /reel/ or a youtu.be/ followed at once by '?') has no reference,
\* although it is a match; and a text that matches neither link pattern gives
\* the empty list.
C29_NoReferenceWithoutId ==
    \A h \in Handlers :
        pc[h] = "extracted" =>
            /\ \A k \in 1..Len(links[h]) :
                /\ links[h][k].videoId # <<>>
                /\ links[h][k].videoId =
                        IF links[h][k].type = "instagram" THEN extractReelId(links[h][k].url)
                        ELSE extractYoutubeId(links[h][k].url)
            /\ \A i \in 1..Len(text[h]) :
                (HasAt(text[h], i, IgReelNoId) \/ HasAt(text[h], i, YtShortNoId)) =>
                    /\ \A k \in 1..Len(links[h]) : links[h][k].index # i
                    /\ Len(links[h]) < MatchesIn[text[h]]
            /\ Len(links[h]) <= MatchesIn[text[h]]
            /\ MatchesIn[text[h]] = 0 => links[h] = <<>>

\* A text with a link that has an id and two that match the link patterns
\* without one: only the first is emitted.
C29_Witness ==
    \E h \in Handlers :
        /\ pc[h] = "extracted"
        /\ \E i \in 1..Len(text[h]) : HasAt(text[h], i, IgReelNoId)
        /\ \E i \in 1..Len(text[h]) : HasAt(text[h], i, YtShortNoId)
        /\ MatchesIn[text[h]] = 3
        /\ Len(links[h]) = 1

\* Handler h has called downloadVideo and its yt-dlp has not been dealt with.
Downloading(h) == pc[h] \in {"download", "dlCallback"}

C31_HitNeverRefreshes ==
    [][/\ \A r \in Requests :
            (Arrives(r) /\ req'[r].hit) =>
                /\ metaCache' = metaCache
                /\ metaCache[req'[r].reelId] # NoEntry
                /\ req'[r].reelsData = metaCache[req'[r].reelId].data
                /\ clock - metaCache[req'[r].reelId].timestamp < CACHE_TTL
       /\ \A id \in ReelIds :
            metaCache'[id] # metaCache[id] =>
                \/ metaCache'[id] = NoEntry
                \/ \E r \in Requests :
                    /\ Stores(r)
                    /\ req[r].reelId = id
                    /\ metaCache'[id] = [data |-> req'[r].reelsData, timestamp |-> clock]]_vars

\* An entry stored at time 0 has been read by two requests and, four minutes
\* on, still carries the time of its fetch.
C31_Witness ==
    \E r, q \in Requests :
        /\ r # q
        /\ req[r].pc = "done" /\ req[r].hit
        /\ req[q].pc = "done" /\ req[q].hit
        /\ req[r].reelId = req[q].reelId
        /\ metaCache[req[r].reelId].timestamp = 0
        /\ clock = 4 * Minute

\* ---------------------------------------------------------------------------
\* Termination of a handler. One message is handled while startBot and sqlite
\* run beside it. Node's event loop runs the continuation of every settled
\* promise and every callback that is due, and each external call is taken to
\* return or fail: a step of the handler that is enabled is taken in the end.
\* ---------------------------------------------------------------------------

\* The handler whose message is followed.
Followed == CHOOSE h \in Handlers : \A g \in Handlers : h <= g

\* The awaits of the handler of a message that has arrived settle.
Settles(h) == pc[h] # "idle" /\ Handler(h)

NextTerm ==
    \/ StartBot
    \/ DbRun
    \/ Handler(Followed)

TermSpec ==
    /\ Init
    /\ [][NextTerm]_vars
    /\ WF_vars(StartBot)
    /\ WF_vars(DbRun)
    /\ WF_vars(Settles(Followed))

\* C32: every link of a message whose handling has begun reaches DONE: the
\* handler comes to the end of the iteration of its n-th link, for every n up
\* to the number of links found in the message.
C32_EveryLinkReachesDone ==
    \A h \in Handlers : \A n \in 1..MaxLinks :
        (pc[h] = "typing" /\ idx[h] = 1 /\ Len(links[h]) >= n) ~> (idx[h] = n /\ Done(h))

\* C33: while the downloader is installed on the host, no link is answered
\* with the 'yt-dlp is not available' notice, whether or not startBot's
\* availability check has resolved when the link is handled.
C33_InstalledNeverUnavailable ==
    \A h \in Handlers :
        ytDlpInstalled => ~HasNotice(h, "unavailable")

\* The temporary file an external call of handler h's pipeline reads at this
\* moment: the download under ffprobe or ffmpeg (src/bot.js:112, 137), the
\* video under the upload's read stream or under the frame extraction
\* (src/bot.js:374, 386).
InUse(h) ==
    IF \/ pc[h] \in {"ffprobe", "ffmpeg"}
       \/ pc[h] = "parallel" /\ (it[h].ust = "sending" \/ it[h].cst = "frame")
    THEN {it[h].videoPath}
    ELSE {}

\* C34: when two handlers work on the same key, the cleanup that follows the
\* delivery of one of them removes no temporary file that the pipeline of the
\* other is reading or uploading at that moment.
C34_NoRemovalUnderReader ==
    [][\A h, g \in Handlers :
          (/\ h # g
           /\ InUse(h) # {}
           /\ pc[g] \in {"parallel", "edit"} /\ pc'[g] = "linkDone"
           /\ Key(h) = Key(g)) =>
              \A p \in InUse(h) : p \in files => p \in files']_vars

\* C35: the compression-failure notice reaches the chat, and the download is
\* discarded without an upload, only in an iteration that called compressVideo
\* and saw it fail; a rejected progress notice alone leads to neither.
C35_OnlyCompressionFailureReported ==
    \A h \in Handlers :
        (\/ \E i \in 1..Len(log[h].notices) :
                log[h].notices[i].kind = "compressFailed" /\ log[h].notices[i].ok
         \/ log[h].unlinked # {} /\ log[h].calls.upload = 0) =>
            /\ log[h].calls.compress = 1
            /\ log[h].compressError = "compress"

\* A call of the hit branch of handler h is rejected in this step
\* (src/bot.js:320-325): the branch is left without a delivery.
HitFails(h) ==
    /\ pc[h] \in {"hitAction", "hitSend"}
    /\ pc'[h] \notin {pc[h], "hitSend"}
    /\ log'[h].delivered = <<>>

\* C36: when a call of the hit branch is rejected, the handler goes to the
\* catch block and nowhere else; from there to the end of the link it calls
\* neither the downloader nor any other tool, hands nothing to the cache,
\* leaves the table, the statement queue and the files as they are, and sends
\* the error notice once and no other notice: a link that reaches DONE this
\* way has exactly one error notice, accepted by the chat.
C36_HitFailureOnlyReported ==
    [][\A h \in Handlers :
          /\ HitFails(h) => pc'[h] = "catch" /\ log'[h].thrown
          /\ (log'[h].lookup = "hit" /\ (HitFails(h) \/ log[h].thrown)) =>
                /\ pc'[h] \in {"catch", "linkDone", "escaped"} \/ ~log'[h].thrown
                /\ log'[h].thrown =>
                    /\ log'[h].calls = NoCalls
                    /\ log'[h].puts = <<>>
                    /\ log'[h].delivered = <<>>
                    /\ log'[h].created = {} /\ log'[h].unlinked = {}
                    /\ Len(log'[h].notices) = (IF pc'[h] = "catch" THEN 0 ELSE 1)
                    /\ \A i \in 1..Len(log'[h].notices) : log'[h].notices[i].kind = "error"
                    /\ pc'[h] = "linkDone" => log'[h].notices[1].ok
                /\ pc'[h] # pc[h] =>
                    /\ cache' = cache
                    /\ dbQueue' = dbQueue
                    /\ files' = files]_vars

\* A hit whose sendVideo was rejected has ended with the error notice in the
\* chat, and the row it found is still the row of its key.
C36_Witness ==
    \E h \in Handlers :
        /\ Done(h)
        /\ log[h].lookup = "hit"
        /\ log[h].thrown
        /\ log[h].calls = NoCalls
        /\ log[h].notices = <<[kind |-> "error", ok |-> TRUE]>>
        /\ cache[Key(h)] = log[h].row
        /\ cache[Key(h)] # NoRow

====
